---------------------------- MODULE Spec2Model ----------------------------
(***************************************************************************)
(* A model of the Harbor data-acquisition code of Cluster-Images:          *)
(*   - get_harbor_paginated_results of src/harbor_api.py (page size 100,   *)
(*     failure = return None) and of src/harbor_image_api.py (page size    *)
(*     50, failure = raised exception);                                    *)
(*   - get_harbor_images of src/harbor_image_api.py, the traversal         *)
(*     projects -> repositories -> artifacts -> tags.                      *)
(* JSON values are tagged records, Python strings are sequences of         *)
(* one-character strings, and one action is one HTTP round trip or one     *)
(* loop iteration of the code.                                             *)
(***************************************************************************)
EXTENDS Integers, Sequences, FiniteSets, TLC

VARIABLES
    mode,       \* what runs: "fetch" (one fetcher call) or get_harbor_images
                \* against a registry that is broad ("agg"), deep ("tags") or
                \* long ("pages")
    variant,    \* "harbor_api" or "harbor_image_api": which fetcher is called
    url,        \* the URL of the running fetcher call
    params,     \* its `params` dict: the caller's, then with page and page_size
    results,    \* the fetcher's local `results`
    page,       \* the fetcher's local `page`
    fstate,     \* "idle", "running", "returned", "returned_none", "raised"
    exc,        \* the exception a raising fetcher call propagates
    requests,   \* every requests.get issued so far: [url, params]
    responses,  \* what the server answered to the running call, in order
    calls,      \* history: the fetcher calls get_harbor_images has completed
    pc,         \* position inside get_harbor_images
    projects, pi,       \* `projects` and the index of the current project
    repositories, ri,   \* `repositories` and the index of the current repo
    artifacts, ai,      \* `artifacts` and the index of the current artifact
    all_images_with_tags,   \* the accumulator of get_harbor_images
    log,        \* app.logger calls made by get_harbor_images itself
    response,   \* the HTTP response of get_harbor_images
    output,     \* the text handed to parse_crictl_images_output
    ignored_image_ids,  \* the image ids it leaves out
    images,     \* what parse_crictl_images_output returned
    pstate,     \* the parser call: "idle", "called" or "returned", and the
                \* line of the return statement it took
    config,     \* how get_all_images is deployed: the module `image_api`
                \* resolves to, and whether harbor_config is complete
    process,    \* how the crictl process of get_all_images ended
    result,     \* `result` of get_all_images
    harbor_images,  \* `harbor_images` of get_all_images
    upc         \* position inside get_all_images

fvars == <<variant, url, params, results, page, fstate, exc, requests, responses>>
\* the fetcher's own state, without the flag its caller resets
flocals == <<variant, url, params, results, page, exc, requests, responses>>
avars == <<pc, projects, pi, repositories, ri, artifacts, ai,
           all_images_with_tags, log, response, calls>>
pvars == <<output, ignored_image_ids, images, pstate>>
uvars == <<config, process, result, harbor_images, upc>>
vars == <<mode, variant, url, params, results, page, fstate, exc, requests, responses,
          pc, projects, pi, repositories, ri, artifacts, ai,
          all_images_with_tags, log, response, calls,
          output, ignored_image_ids, images, pstate,
          config, process, result, harbor_images, upc>>

-----------------------------------------------------------------------------
(* JSON values as response.json() decodes them.                            *)

JNull == [t |-> "null"]
JNum(n) == [t |-> "num", v |-> n]
JStr(s) == [t |-> "str", v |-> s]
JList(s) == [t |-> "list", v |-> s]
\* a dict: its keys in insertion order and the value of each key
JDict(ks, f) == [t |-> "dict", keys |-> ks, f |-> f]
EmptyDict == JDict(<<>>, <<>>)
\* an opaque listing item, identified by the page and position it came at
Item(p, i) == [t |-> "item", page |-> p, i |-> i]

IsList(v) == v.t = "list"
IsDict(v) == v.t = "dict"

\* Python truthiness: `if x`, `not x`
Truthy(v) ==
    CASE v.t = "null" -> FALSE
      [] v.t = "num" -> v.v # 0
      [] v.t = "str" -> Len(v.v) > 0
      [] v.t = "list" -> Len(v.v) > 0
      [] v.t = "dict" -> Len(v.keys) > 0
      [] OTHER -> TRUE

\* dict.get(k): None when the key is missing
Get(d, k) == IF k \in DOMAIN d.f THEN d.f[k] ELSE JNull

\* dict.get(k, default)
GetOr(d, k, default) == IF k \in DOMAIN d.f THEN d.f[k] ELSE default

\* iter(x) for the iterable JSON values: what list.extend(x) appends
Iterate(v) ==
    CASE v.t = "list" -> v.v
      [] v.t = "dict" -> [i \in 1..Len(v.keys) |-> JStr(<<v.keys[i]>>)]
      [] v.t = "str" -> [i \in 1..Len(v.v) |-> JStr(<<v.v[i]>>)]
      [] OTHER -> <<>>

Iterable(v) == v.t \in {"list", "dict", "str"}

\* len(x)
PyLen(v) ==
    CASE v.t = "list" -> Len(v.v)
      [] v.t = "dict" -> Len(v.keys)
      [] v.t = "str" -> Len(v.v)
      [] OTHER -> 0

-----------------------------------------------------------------------------
(* The two fetchers.                                                       *)

\* page_size of harbor_api.get_harbor_paginated_results
ApiPageSize == 100
\* page_size of harbor_image_api.get_harbor_paginated_results
ImagePageSize == 50

PageSize(v) == IF v = "harbor_api" THEN ApiPageSize ELSE ImagePageSize

\* What one round trip can bring back: the transport outcome, the decoded
\* body (for kind "json") and the x-total-count header.
NoHeader == [h |-> "absent", n |-> 0]
BadHeader == [h |-> "text", n |-> 0]
NumHeader(n) == [h |-> "num", n |-> n]

Failure(k, st) == [kind |-> k, status |-> st, body |-> JNull, hdr |-> NoHeader]
Json(b, h) == [kind |-> "json", status |-> 200, body |-> b, hdr |-> h]

\* requests.exceptions.RequestException raised by requests.get or by
\* raise_for_status
IsRequestException(r) == r.kind \in {"conn", "timeout", "http"}


NoExc == [type |-> "none", status |-> 0]
\* the exception object a failed round trip raises inside the try block
ExcOf(r) ==
    CASE r.kind = "conn" -> [type |-> "ConnectionError", status |-> 0]
      [] r.kind = "timeout" -> [type |-> "Timeout", status |-> 0]
      [] r.kind = "http" -> [type |-> "HTTPError", status |-> r.status]
      [] OTHER -> [type |-> "JSONDecodeError", status |-> 0]

\* The state of the fetcher's locals after one pass through the loop body.
Step(st, res, pg, e) == [fstate |-> st, results |-> res, page |-> pg, exc |-> e]

\* mutant: the except clauses leave the loop and return what was accumulated
ApiOnFailure_break == Step("returned", results, page, NoExc)

\* harbor_api.py: all three except clauses end in `return None`
ApiOnFailure == Step("returned_none", results, page, NoExc)

\* harbor_api.py: isinstance(page_data, list) / page_data.get('data', page_data);
\* .get on a value that is no dict raises AttributeError (except Exception)
ApiCurrentPage(body) ==
    IF IsList(body) THEN [ok |-> TRUE, items |-> body.v]
    ELSE IF ~IsDict(body) THEN [ok |-> FALSE, items |-> <<>>]
    ELSE LET cur == GetOr(body, "data", body)
         IN IF IsList(cur) THEN [ok |-> TRUE, items |-> cur.v]
            ELSE [ok |-> FALSE, items |-> <<>>]

\* mutant: the loop gives up after three pages
ApiAfterPage_capped(items) ==
    IF Len(items) < ApiPageSize \/ page >= 3
    THEN Step("returned", results \o items, page, NoExc)
    ELSE Step("running", results \o items, page + 1, NoExc)

\* mutant: the short-page test written `<=`, so that a full page ends the fetch
ApiAfterPage_le(items) ==
    IF Len(items) <= ApiPageSize
    THEN Step("returned", results \o items, page, NoExc)
    ELSE Step("running", results \o items, page + 1, NoExc)

\* harbor_api.py: results.extend, the short-page test, page += 1
ApiAfterPage(items) ==
    IF Len(items) < ApiPageSize
    THEN Step("returned", results \o items, page, NoExc)
    ELSE Step("running", results \o items, page + 1, NoExc)

\* harbor_api.py: one pass through the body of `while True`
ApiPage(r) ==
    IF r.kind # "json" THEN ApiOnFailure
    ELSE LET d == ApiCurrentPage(r.body)
         IN IF d.ok THEN ApiAfterPage(d.items) ELSE ApiOnFailure

\* harbor_image_api.py: both except clauses log and re-raise
ImageOnFailure(r) == Step("raised", results, page, ExcOf(r))

\* harbor_image_api.py: `if not current_page_data: break`
ImageEmptyPage(body) == ~Truthy(body)

\* mutant: the x-total-count header is not looked at
ImageTotalCount_ignored(r, res) == Step("running", res, page + 1, NoExc)

\* harbor_image_api.py: the x-total-count test; int() of a header that is no
\* number raises ValueError, which the second except clause re-raises
ImageTotalCount(r, res) ==
    IF r.hdr.h = "absent" THEN Step("running", res, page + 1, NoExc)
    ELSE IF r.hdr.h = "text"
    THEN Step("raised", res, page, [type |-> "ValueError", status |-> 0])
    ELSE IF Len(res) >= r.hdr.n THEN Step("returned", res, page, NoExc)
    ELSE Step("running", res, page + 1, NoExc)

\* harbor_image_api.py: results.extend (TypeError on a value that cannot be
\* iterated, caught by neither except clause), then the termination tests
ImageAfterPage(r) ==
    IF ~Iterable(r.body)
    THEN Step("raised", results, page, [type |-> "TypeError", status |-> 0])
    ELSE LET res == results \o Iterate(r.body)
         IN IF PyLen(r.body) < ImagePageSize
            THEN Step("returned", res, page, NoExc)
            ELSE ImageTotalCount(r, res)

\* harbor_image_api.py: one pass through the body of `while True`
ImagePage(r) ==
    IF r.kind # "json" THEN ImageOnFailure(r)
    ELSE IF ImageEmptyPage(r.body) THEN Step("returned", results, page, NoExc)
    ELSE ImageAfterPage(r)

\* params={"with_detail": "false"} of the project listing
ProjectsParams == [with_detail |-> "false"]

\* repos_params = {'page_size': 50}
ReposParams == [page_size |-> 50]

\* artifact_params = {'with_tag': 'true', 'page_size': 50}
ArtifactParams == [with_tag |-> "true", page_size |-> 50]

\* d[k] = v on a dict
Put(d, k, v) == [x \in DOMAIN d \cup {k} |-> IF x = k THEN v ELSE d[x]]

\* `if params is None: params = {}`
NoParams == [x \in {} |-> x]

\* mutant: a page_size the caller supplied is kept
PageParams_keep ==
    Put(Put(params, "page", page), "page_size",
        IF "page_size" \in DOMAIN params THEN params["page_size"]
        ELSE PageSize(variant))

\* params['page'] = page; params['page_size'] = page_size
PageParams == Put(Put(params, "page", page), "page_size", PageSize(variant))

\* requests.get(url, auth=auth, params=params, ...)
Request == [url |-> url, params |-> PageParams]

\* results = []; page = 1 at the head of get_harbor_paginated_results
BeginFetch(v, u, prm) ==
    /\ variant' = v
    /\ url' = u
    /\ params' = prm
    /\ results' = <<>>
    /\ page' = 1
    /\ fstate' = "running"
    /\ exc' = NoExc
    /\ responses' = <<>>
    /\ UNCHANGED requests

\* one requests.get and everything the loop body does with its answer
RoundTrip(r) ==
    LET s == IF variant = "harbor_api" THEN ApiPage(r) ELSE ImagePage(r)
    IN /\ requests' = Append(requests, Request)
       /\ params' = PageParams
       /\ responses' = Append(responses, r)
       /\ results' = s.results
       /\ page' = s.page
       /\ fstate' = s.fstate
       /\ exc' = s.exc
       /\ UNCHANGED <<variant, url>>

-----------------------------------------------------------------------------
(* The server of a single fetcher call (mode "fetch").                     *)

\* pages fetched in a single fetcher call
MaxPages == 4

Failures ==
    {Failure("conn", 0), Failure("timeout", 0), Failure("http", 404),
     Failure("http", 500), Failure("badjson", 200)}

\* n opaque items of page p
Items(p, n) == [i \in 1..n |-> Item(p, i)]

\* bodies that are a page of some form
PageBodies(p, N) ==
    {JList(Items(p, n)) : n \in {0, 1, N - 1, N, N + 1}}
    \cup {JDict(<<"data">>, [data |-> JList(Items(p, n))]) : n \in {0, 1, N}}

\* bodies that are neither a sequence nor an object with a sequence under `data`
OddBodies(p) ==
    {JNull, JNum(7), JStr(<<"a", "b">>), EmptyDict,
     JDict(<<"data">>, [data |-> JNum(1)]),
     JDict(<<"items">>, [items |-> JList(Items(p, 1))])}

\* x-total-count headers; harbor_api.py never reads response.headers, so one
\* present header is enough to show that it is ignored there
Headers(v) ==
    IF v = "harbor_api" THEN {NoHeader, NumHeader(ApiPageSize)}
    ELSE {NoHeader, BadHeader, NumHeader(ImagePageSize),
          NumHeader(2 * ImagePageSize), NumHeader(2 * ImagePageSize + 1)}

FetchAnswers(v, p) ==
    Failures \cup {Json(b, h) : b \in PageBodies(p, PageSize(v)) \cup OddBodies(p),
                               h \in Headers(v)}

Variants == {"harbor_api", "harbor_image_api"}

IdleAgg ==
    /\ pc = "off"
    /\ projects = <<>> /\ pi = 0
    /\ repositories = <<>> /\ ri = 0
    /\ artifacts = <<>> /\ ai = 0
    /\ all_images_with_tags = <<>>
    /\ log = <<>>
    /\ response = [status |-> 0]
    /\ calls = <<>>

IdleParser ==
    /\ output = <<>>
    /\ ignored_image_ids = {}
    /\ images = <<>>
    /\ pstate = [at |-> "idle", line |-> 0]

\* lines 124-128 of image.py
EmptyResult == [containerd_images |-> <<>>, harbor_images |-> <<>>, errors |-> <<>>]

IdleUnified ==
    /\ config = [image_api |-> "none", harbor_complete |-> FALSE]
    /\ process = [kind |-> "none"]
    /\ result = EmptyResult
    /\ harbor_images = <<>>
    /\ upc = "off"

IdleFetcher ==
    /\ url = <<>>
    /\ params = NoParams
    /\ results = <<>>
    /\ page = 0
    /\ fstate = "idle"
    /\ exc = NoExc
    /\ requests = <<>>
    /\ responses = <<>>

FetchInit ==
    /\ mode = "fetch"
    /\ variant \in Variants
    /\ IdleFetcher
    /\ IdleAgg
    /\ IdleParser
    /\ IdleUnified

\* the `params` a caller passes: none, the three of get_harbor_images, and
\* one that carries a page and a page_size of its own
CallerParams ==
    {NoParams, ProjectsParams, ReposParams, ArtifactParams,
     [page |-> 7, page_size |-> 10]}

\* a caller enters get_harbor_paginated_results
CallFetcher ==
    /\ mode = "fetch"
    /\ fstate = "idle"
    /\ \E prm \in CallerParams : BeginFetch(variant, <<"listing">>, prm)
    /\ UNCHANGED <<mode, pvars, uvars, avars>>

\* one iteration of `while True` against the server of mode "fetch"
FetchPage ==
    /\ mode = "fetch"
    /\ fstate = "running"
    /\ Len(requests) < MaxPages
    /\ \E r \in FetchAnswers(variant, page) : RoundTrip(r)
    /\ UNCHANGED <<mode, pvars, uvars, avars>>

FetchNext == CallFetcher \/ FetchPage

SpecFetch == FetchInit /\ [][FetchNext]_vars

-----------------------------------------------------------------------------
(* get_harbor_images of harbor_image_api.py.                               *)

\* the registries get_harbor_images is run against: broad, deep, long, and
\* one whose listings name the same project and repository twice
AggModes == {"agg", "tags", "pages", "dup"}

\* HARBOR_URL with its scheme removed, as a record shows it
HarborHost == <<"h">>

\* first index of character c in string s, 0 when absent
RECURSIVE IndexFrom(_, _, _)
IndexFrom(s, c, i) ==
    IF i > Len(s) THEN 0
    ELSE IF s[i] = c THEN i
    ELSE IndexFrom(s, c, i + 1)

\* full_repo_name.split('/', 1)
SplitOnce(s) ==
    LET i == IndexFrom(s, "/", 1)
    IN IF i = 0 THEN <<s>>
       ELSE <<SubSeq(s, 1, i - 1), SubSeq(s, i + 1, Len(s))>>

\* lines 97-108: the name after the project prefix, or the full name
RepositoryActualName(full, project) ==
    LET name_parts == SplitOnce(full)
    IN IF Len(name_parts) = 2 /\ name_parts[1] = project
       THEN name_parts[2]
       ELSE full

\* urllib.parse.quote_plus on one character of the model's alphabet
QuoteChar(c) ==
    CASE c = "/" -> <<"%", "2", "F">>
      [] c = " " -> <<"+">>
      [] OTHER -> <<c>>

RECURSIVE QuotePlus(_)
\* urllib.parse.quote_plus
QuotePlus(s) ==
    IF s = <<>> THEN <<>>
    ELSE QuoteChar(s[1]) \o QuotePlus(SubSeq(s, 2, Len(s)))

ProjectsUrl == <<"projects">>
RepositoriesUrl(project) == <<"projects", project, "repositories">>
ArtifactsUrl(project, encoded) ==
    <<"projects", project, "repositories", encoded, "artifacts">>

\* an app.logger call of get_harbor_images: its level, the line that makes it,
\* and the project / repository / artifact position it is about
LogEntry(level, line) ==
    [level |-> level, line |-> line, pi |-> pi, ri |-> ri, ai |-> ai]

\* lines 128-133 and 137-142: the record appended for one tag; `src` is the
\* position (project, repository, artifact) the record was emitted at, kept
\* beside the two fields the code stores
ImageRecord(full, tag, src) ==
    [repository |-> HarborHost \o <<"/">> \o full, tag |-> tag, src |-> src]

NoneTag == <<"<none>">>

\* line 127: `tag_info and tag_info.get('name')`
ValidTag(tag_info) == Truthy(tag_info) /\ Truthy(Get(tag_info, "name"))

\* line 127 raises AttributeError on a truthy entry that is no dict
TagRaises(tag_info) == Truthy(tag_info) /\ ~IsDict(tag_info)

RECURSIVE TagLoop(_, _, _, _)
\* lines 126-135: the records and warnings of the tag entries from position k
\* on, up to the entry (if any) at which line 127 raises
TagLoop(full, tags, k, src) ==
    IF k > Len(tags) THEN [recs |-> <<>>, warns |-> 0, raised |-> FALSE]
    ELSE IF TagRaises(tags[k])
    THEN [recs |-> <<>>, warns |-> 0, raised |-> TRUE]
    ELSE LET rest == TagLoop(full, tags, k + 1, src)
         IN IF ValidTag(tags[k])
            THEN [recs |-> <<ImageRecord(full, Get(tags[k], "name").v, src)>>
                                \o rest.recs,
                  warns |-> rest.warns, raised |-> rest.raised]
            ELSE [recs |-> rest.recs, warns |-> rest.warns + 1,
                  raised |-> rest.raised]

\* mutant: an artifact without tags is left out, as it has nothing to list
UntaggedRecords_dropped(full, src) == <<>>

\* lines 136-142: the record of an artifact whose `tags` is missing or falsy
UntaggedRecords(full, src) == <<ImageRecord(full, NoneTag, src)>>

\* lines 125-142: what one artifact appends
ArtifactRecords(full, artifact, src) ==
    IF Truthy(Get(artifact, "tags")) /\ ~Iterable(Get(artifact, "tags"))
    THEN [recs |-> <<>>, warns |-> 0, raised |-> TRUE]
    ELSE IF Truthy(Get(artifact, "tags"))
    THEN TagLoop(full, Iterate(Get(artifact, "tags")), 1, src)
    ELSE [recs |-> UntaggedRecords(full, src), warns |-> 0, raised |-> FALSE]

\* mutant: the records are answered newest first
OkResponse_reversed(recs) ==
    [status |-> 200, body |-> "images",
     images |-> [n \in 1..Len(recs) |-> recs[Len(recs) + 1 - n]]]

\* jsonify(all_images_with_tags): a JSON array of the records and nothing else
OkResponse(recs) == [status |-> 200, body |-> "images", images |-> recs]

\* lines 158-163: the two outer except clauses
ErrorResponse(msg) == [status |-> 500, body |-> "error", error |-> msg, images |-> <<>>]

\* which outer except clause catches e: requests' JSONDecodeError is a
\* RequestException in recent versions of requests and a plain ValueError before
OuterMessages(e) ==
    IF e.type \in {"ConnectionError", "Timeout", "HTTPError"}
    THEN {"Failed to connect to Harbor or general request error"}
    ELSE IF e.type = "JSONDecodeError"
    THEN {"Failed to connect to Harbor or general request error",
          "An unexpected error occurred"}
    ELSE {"An unexpected error occurred"}

AttributeError == [type |-> "AttributeError", status |-> 0]

\* the fetcher call that just ended, as the history keeps it: the unit it was
\* made for, how it ended, and what it returned
EndedCall(level, name) ==
    [level |-> level, pi |-> pi, ri |-> ri, name |-> name, url |-> url,
     outcome |-> fstate, exc |-> exc,
     results |-> IF fstate = "returned" THEN results ELSE <<>>]

\* the handler returns: nothing runs after it
Return(resp) ==
    /\ response' = resp
    /\ pc' = "done"
    /\ fstate' = "idle"
    /\ UNCHANGED <<mode, pvars, uvars, variant, url, params, results, page, exc, requests, responses,
                   projects, pi, repositories, ri, artifacts, ai,
                   all_images_with_tags>>

\* mutant: the outer except clause answers with what was collected so far
OuterExcept_partial(e) ==
    /\ Return(OkResponse(all_images_with_tags))
    /\ log' = Append(log, LogEntry("error", 162))

\* an exception reaches the outer try of get_harbor_images
OuterExcept(e) ==
    /\ \E msg \in OuterMessages(e) : Return(ErrorResponse(msg))
    /\ log' = Append(log, LogEntry("error", IF e.type \in {"ConnectionError", "Timeout", "HTTPError"} THEN 159 ELSE 162))

Project == projects[pi]
Repo == repositories[ri]
Artifact == artifacts[ai]
project_name == Get(Project, "name").v
full_repo_name == Get(Repo, "name").v

\* lines 54-66: the handler starts and asks for the project listing
StartHandler ==
    /\ mode \in AggModes
    /\ pc = "start"
    /\ BeginFetch("harbor_image_api", ProjectsUrl, ProjectsParams)
    /\ pc' = "fetch_projects"
    /\ UNCHANGED <<mode, pvars, uvars, projects, pi, repositories, ri, artifacts, ai,
                   all_images_with_tags, log, response, calls>>

\* lines 66-69: the project listing came back
ProjectsFetched ==
    /\ pc = "fetch_projects"
    /\ fstate = "returned"
    /\ projects' = results
    /\ pi' = 1
    /\ pc' = "project_loop"
    /\ fstate' = "idle"
    /\ calls' = Append(calls, EndedCall("projects", <<>>))
    /\ UNCHANGED <<mode, pvars, uvars, flocals, repositories, ri, artifacts, ai,
                   all_images_with_tags, log, response>>

\* lines 66 and 84 are guarded by the outer try only: a fetch that raises
\* there ends the handler with 500
FetchFailedOuter ==
    /\ pc \in {"fetch_projects", "fetch_repos"}
    /\ fstate = "raised"
    /\ OuterExcept(exc)
    /\ calls' = Append(calls, EndedCall(IF pc = "fetch_projects" THEN "projects"
                                        ELSE "repositories", <<>>))

\* lines 155-156: the loop over the projects is exhausted
Finish ==
    /\ pc = "project_loop"
    /\ pi > Len(projects)
    /\ Return(OkResponse(all_images_with_tags))
    /\ log' = Append(log, LogEntry("info", 155))
    /\ UNCHANGED calls

\* line 70: project.get on an entry that is no dict raises AttributeError
ProjectBad ==
    /\ pc = "project_loop"
    /\ pi <= Len(projects)
    /\ ~IsDict(Project)
    /\ OuterExcept(AttributeError)
    /\ UNCHANGED calls

\* mutant: the name is read as project['name'] and tested after use, so an
\* entry without one ends the handler in the outer except clause
ProjectSkip_raise ==
    /\ pc = "project_loop"
    /\ pi <= Len(projects)
    /\ IsDict(Project)
    /\ ~Truthy(Get(Project, "name"))
    /\ OuterExcept([type |-> "KeyError", status |-> 0])
    /\ UNCHANGED calls

\* lines 72-74: an entry without a name is logged and skipped
ProjectSkip ==
    /\ pc = "project_loop"
    /\ pi <= Len(projects)
    /\ IsDict(Project)
    /\ ~Truthy(Get(Project, "name"))
    /\ log' = Append(log, LogEntry("warning", 73))
    /\ pi' = pi + 1
    /\ UNCHANGED <<mode, pvars, uvars, fvars, pc, projects, repositories, ri, artifacts, ai,
                   all_images_with_tags, response, calls>>

\* lines 76-84: ask for the repositories of the project
ProjectRepos ==
    /\ pc = "project_loop"
    /\ pi <= Len(projects)
    /\ IsDict(Project)
    /\ Truthy(Get(Project, "name"))
    /\ BeginFetch("harbor_image_api", RepositoriesUrl(project_name), ReposParams)
    /\ pc' = "fetch_repos"
    /\ UNCHANGED <<mode, pvars, uvars, projects, pi, repositories, ri, artifacts, ai,
                   all_images_with_tags, log, response, calls>>

\* lines 84-87: the repository listing came back
ReposFetched ==
    /\ pc = "fetch_repos"
    /\ fstate = "returned"
    /\ repositories' = results
    /\ ri' = 1
    /\ pc' = "repo_loop"
    /\ fstate' = "idle"
    /\ calls' = Append(calls, EndedCall("repositories", <<>>))
    /\ UNCHANGED <<mode, pvars, uvars, flocals, projects, pi, artifacts, ai,
                   all_images_with_tags, log, response>>

\* line 87: the loop over the repositories is exhausted, next project
ReposExhausted ==
    /\ pc = "repo_loop"
    /\ ri > Len(repositories)
    /\ pi' = pi + 1
    /\ pc' = "project_loop"
    /\ UNCHANGED <<mode, pvars, uvars, fvars, projects, repositories, ri, artifacts, ai,
                   all_images_with_tags, log, response, calls>>

\* line 88: repo.get on an entry that is no dict raises AttributeError,
\* outside the inner try
RepoBad ==
    /\ pc = "repo_loop"
    /\ ri <= Len(repositories)
    /\ ~IsDict(Repo)
    /\ OuterExcept(AttributeError)
    /\ UNCHANGED calls

\* lines 89-91 and 110-112: a repository without a name, or whose derived
\* name is empty, is logged and skipped
RepoSkip ==
    /\ pc = "repo_loop"
    /\ ri <= Len(repositories)
    /\ IsDict(Repo)
    /\ \/ /\ ~Truthy(Get(Repo, "name"))
          /\ log' = Append(log, LogEntry("warning", 90))
       \/ /\ Truthy(Get(Repo, "name"))
          /\ RepositoryActualName(full_repo_name, project_name) = <<>>
          /\ log' = Append(log, LogEntry("error", 111))
    /\ ri' = ri + 1
    /\ UNCHANGED <<mode, pvars, uvars, fvars, pc, projects, pi, repositories, artifacts, ai,
                   all_images_with_tags, response, calls>>

\* lines 93-121: derive the name, encode it, ask for the artifacts
RepoArtifacts ==
    /\ pc = "repo_loop"
    /\ ri <= Len(repositories)
    /\ IsDict(Repo)
    /\ Truthy(Get(Repo, "name"))
    /\ LET actual == RepositoryActualName(full_repo_name, project_name)
       IN /\ actual # <<>>
          /\ BeginFetch("harbor_image_api",
                        ArtifactsUrl(project_name, QuotePlus(actual)),
                        ArtifactParams)
          /\ log' = IF actual = full_repo_name
                    THEN Append(log, LogEntry("warning", 102))
                    ELSE Append(log, LogEntry("info", 100))
    /\ pc' = "fetch_artifacts"
    /\ UNCHANGED <<mode, pvars, uvars, projects, pi, repositories, ri, artifacts, ai,
                   all_images_with_tags, response, calls>>

\* lines 121-124: the artifact listing came back
ArtifactsFetched ==
    /\ pc = "fetch_artifacts"
    /\ fstate = "returned"
    /\ artifacts' = results
    /\ ai' = 1
    /\ pc' = "artifact_loop"
    /\ fstate' = "idle"
    /\ calls' = Append(calls, EndedCall("artifacts", full_repo_name))
    /\ UNCHANGED <<mode, pvars, uvars, flocals, projects, pi, repositories, ri,
                   all_images_with_tags, log, response>>

\* mutant: no special case for 404, every HTTPError is logged as an error
InnerExceptLog_no404(e) ==
    IF e.type = "HTTPError" THEN LogEntry("error", 150)
    ELSE LogEntry("error", 153)

\* lines 145-153: the log call of the inner except clause that catches e
InnerExceptLog(e) ==
    IF e.type = "HTTPError" /\ e.status = 404 THEN LogEntry("info", 148)
    ELSE IF e.type = "HTTPError" THEN LogEntry("error", 150)
    ELSE LogEntry("error", 153)

\* mutant: the inner except clauses re-raise after logging, so the failure of
\* one repository reaches the outer try
InnerExcept_reraise(e, warns) ==
    /\ log' = Append(log, InnerExceptLog(e))
    /\ ri' = ri
    /\ pc' = "done"
    /\ fstate' = "idle"
    /\ response' = ErrorResponse("An unexpected error occurred")
    /\ UNCHANGED <<mode, pvars, uvars, flocals, projects, pi, repositories, artifacts, ai>>

\* mutant: the inner except clauses log and try the same repository again
InnerExcept_retry(e, warns) ==
    /\ log' = (log \o [k \in 1..warns |-> LogEntry("warning", 135)])
                    \o <<InnerExceptLog(e)>>
    /\ ri' = ri
    /\ pc' = "repo_loop"
    /\ fstate' = "idle"
    /\ UNCHANGED <<mode, pvars, uvars, flocals, projects, pi, repositories, artifacts, ai,
                   response>>

\* lines 145-153: the inner except clauses log and go on with the next
\* repository; `warns` warnings of line 135 were logged before e was raised
InnerExcept(e, warns) ==
    /\ log' = (log \o [k \in 1..warns |-> LogEntry("warning", 135)])
                    \o <<InnerExceptLog(e)>>
    /\ ri' = ri + 1
    /\ pc' = "repo_loop"
    /\ fstate' = "idle"
    /\ UNCHANGED <<mode, pvars, uvars, flocals, projects, pi, repositories, artifacts, ai,
                   response>>

\* line 121 raised: the artifact fetch failed
ArtifactsRaised ==
    /\ pc = "fetch_artifacts"
    /\ fstate = "raised"
    /\ InnerExcept(exc, 0)
    /\ calls' = Append(calls, EndedCall("artifacts", full_repo_name))
    /\ UNCHANGED all_images_with_tags

\* line 124: the loop over the artifacts is exhausted, next repository
ArtifactsExhausted ==
    /\ pc = "artifact_loop"
    /\ ai > Len(artifacts)
    /\ ri' = ri + 1
    /\ pc' = "repo_loop"
    /\ UNCHANGED <<mode, pvars, uvars, fvars, projects, pi, repositories, artifacts, ai,
                   all_images_with_tags, log, response, calls>>

\* line 125 on an entry that is no dict, or line 127 on a tag entry that is
\* none: AttributeError inside the inner try, after the records emitted so far
ArtifactBad ==
    /\ pc = "artifact_loop"
    /\ ai <= Len(artifacts)
    /\ IF IsDict(Artifact)
       THEN LET a == ArtifactRecords(full_repo_name, Artifact, <<pi, ri, ai>>)
            IN /\ a.raised
               /\ all_images_with_tags' = all_images_with_tags \o a.recs
               /\ InnerExcept(AttributeError, a.warns)
       ELSE /\ UNCHANGED all_images_with_tags
            /\ InnerExcept(AttributeError, 0)
    /\ UNCHANGED calls

\* lines 124-142: one artifact, all its tags
ArtifactIter ==
    /\ pc = "artifact_loop"
    /\ ai <= Len(artifacts)
    /\ IsDict(Artifact)
    /\ LET a == ArtifactRecords(full_repo_name, Artifact, <<pi, ri, ai>>)
       IN /\ ~a.raised
          /\ all_images_with_tags' = all_images_with_tags \o a.recs
          /\ log' = log \o [k \in 1..a.warns |-> LogEntry("warning", 135)]
    /\ ai' = ai + 1
    /\ UNCHANGED <<mode, pvars, uvars, fvars, pc, projects, pi, repositories, ri, artifacts,
                   response, calls>>

-----------------------------------------------------------------------------
(* The registry that get_harbor_images talks to (mode "agg").              *)

\* requests.get calls explored in one run of get_harbor_images
MaxRequests == 5
\* entries of a project listing
MaxProjects == 2
\* entries of a repository listing
MaxRepos == 3
\* entries of an artifact listing that is not a full page
MaxArtifacts == 2

\* all sequences over S of length at most n
SeqsUpTo(S, n) == UNION {[1..k -> S] : k \in 0..n}

\* names are given by position, so that the entries of a listing have
\* distinct names (kind "same" apart, which repeats the first name)
Letters == <<"a", "b", "c", "d", "e", "f">>
ProjectName(i) == <<"p", Letters[i]>>

ProjectKinds == {"named", "noname", "emptyname"}
ProjectEntry(kind, i) ==
    CASE kind = "named" -> JDict(<<"name">>, [name |-> JStr(ProjectName(i))])
      [] kind = "same" -> JDict(<<"name">>, [name |-> JStr(ProjectName(1))])
      [] kind = "emptyname" -> JDict(<<"name">>, [name |-> JStr(<<>>)])
      [] OTHER -> JDict(<<"project_id">>, [project_id |-> JNum(i)])

\* "good": "{project}/{letter}"; "mismatch": another project's prefix;
\* "emptyder": "{project}/", whose derived name is empty
RepoKinds == {"good", "noname", "mismatch", "emptyder"}
RepoEntry(project, kind, i) ==
    CASE kind = "good" ->
            JDict(<<"name">>, [name |-> JStr(project \o <<"/", Letters[i]>>)])
      [] kind = "same" ->
            JDict(<<"name">>, [name |-> JStr(project \o <<"/", Letters[1]>>)])
      [] kind = "mismatch" ->
            JDict(<<"name">>, [name |-> JStr(<<"o", "/", Letters[i]>>)])
      [] kind = "emptyder" ->
            JDict(<<"name">>, [name |-> JStr(project \o <<"/">>)])
      [] OTHER -> JDict(<<"id">>, [id |-> JNum(i)])

Tag(n) == JDict(<<"name">>, [name |-> JStr(n)])
UnnamedTag == JDict(<<"id">>, [id |-> JNum(1)])

\* the shapes of an artifact's `tags`
TagShapes ==
    {"missing", "null", "empty", "nulls", "unnamed", "one", "mixed", "text"}
TagsOf(shape) ==
    CASE shape = "null" -> JNull
      [] shape = "empty" -> JList(<<>>)
      [] shape = "nulls" -> JList(<<JNull>>)
      [] shape = "unnamed" -> JList(<<UnnamedTag, Tag(<<>>)>>)
      [] shape = "one" -> JList(<<Tag(<<"v">>)>>)
      [] shape = "text" -> JList(<<Tag(<<"v">>), JStr(<<"x">>), Tag(<<"w">>)>>)
      [] OTHER -> JList(<<Tag(<<"v">>), JNull, Tag(<<"w">>)>>)
ArtifactEntry(shape, i) ==
    IF shape = "missing"
    THEN JDict(<<"digest">>, [digest |-> JNum(i)])
    ELSE JDict(<<"digest", "tags">>, [digest |-> JNum(i), tags |-> TagsOf(shape)])

\* bodies that are no list of entries: a number (extend raises TypeError) and
\* an object wrapping the list (extend appends its keys)
AggOddBodies ==
    {JNum(7), JDict(<<"data">>, [data |-> JList(<<>>)])}

\* The registries explored.  Mode "agg" is broad: up to MaxProjects projects
\* with up to MaxRepos repositories each, well-formed or unnamed, every
\* artifact with one tag.  Mode "tags" is deep: one project with one
\* repository, whose name and whose artifacts take every shape.  Mode "pages"
\* is long: one project with one repository, whose artifact listing comes in
\* full pages.  Mode "unified" is the registry of get_all_images: up to
\* MaxProjects projects with one repository each, artifacts with one tag,
\* without tags and with a null tag.  Mode "dup" is a registry whose
\* listings repeat an entry (as a listing that shifts between two pages
\* does): up to MaxProjects projects of one name, each with up to
\* MaxProjects repositories of one name, one artifact with one tag.
KindsOf(m, level) ==
    CASE level = 1 -> IF m = "agg" THEN ProjectKinds
                      ELSE IF m = "unified" THEN {"named", "noname"}
                      ELSE IF m = "dup" THEN {"same"}
                      ELSE {"named"}
      [] level = 3 -> IF m = "tags" THEN RepoKinds
                      ELSE IF m \in {"agg", "unified"} THEN {"good", "noname"}
                      ELSE IF m = "dup" THEN {"same"}
                      ELSE {"good"}
      [] OTHER -> IF m = "tags" THEN TagShapes
                  ELSE IF m = "unified" THEN {"one", "missing", "nulls"}
                  ELSE {"one"}

LengthOf(m, level) ==
    CASE level = 1 -> IF m \in {"agg", "unified", "dup"} THEN MaxProjects ELSE 1
      [] level = 3 -> IF m = "agg" THEN MaxRepos
                      ELSE IF m = "dup" THEN MaxProjects ELSE 1
      [] OTHER -> IF m \in {"pages", "dup"} THEN 1 ELSE MaxArtifacts

\* the entry of kind k at position i of the listing at URL u
EntryOf(u, k, i) ==
    CASE Len(u) = 1 -> ProjectEntry(k, i)
      [] Len(u) = 3 -> RepoEntry(u[2], k, i)
      [] OTHER -> ArtifactEntry(k, i)

\* the listings of URL u: every sequence of entry kinds up to the bound
ListingBodies(m, u) ==
    {JList([i \in 1..Len(ks) |-> EntryOf(u, ks[i], i)]) :
        ks \in SeqsUpTo(KindsOf(m, Len(u)), LengthOf(m, Len(u)))}

\* a full page of artifacts, with and without a total count that ends the fetch
FullPages(m, u) ==
    IF m = "pages" /\ Len(u) = 5
    THEN {Json(JList([i \in 1..ImagePageSize |-> ArtifactEntry(k, i)]), h) :
            k \in {"missing"},
            h \in {NoHeader, NumHeader(ImagePageSize)}}
    ELSE {}

AggAnswers(m, u) ==
    Failures
    \cup {Json(b, NoHeader) : b \in ListingBodies(m, u) \cup AggOddBodies}
    \cup FullPages(m, u)

AggInit ==
    /\ mode \in AggModes
    /\ variant = "harbor_image_api"
    /\ IdleFetcher
    /\ pc = "start"
    /\ projects = <<>> /\ pi = 0
    /\ repositories = <<>> /\ ri = 0
    /\ artifacts = <<>> /\ ai = 0
    /\ all_images_with_tags = <<>>
    /\ log = <<>>
    /\ response = [status |-> 0]
    /\ calls = <<>>
    /\ IdleParser
    /\ IdleUnified

\* one iteration of the fetcher's `while True` against the registry
AggFetchPage ==
    /\ mode \in AggModes
    /\ fstate = "running"
    /\ Len(requests) < MaxRequests
    /\ \E r \in AggAnswers(mode, url) : RoundTrip(r)
    /\ UNCHANGED <<mode, pvars, uvars, avars>>

AggNext ==
    \/ StartHandler
    \/ AggFetchPage
    \/ ProjectsFetched
    \/ FetchFailedOuter
    \/ Finish
    \/ ProjectBad
    \/ ProjectSkip
    \/ ProjectRepos
    \/ ReposFetched
    \/ ReposExhausted
    \/ RepoBad
    \/ RepoSkip
    \/ RepoArtifacts
    \/ ArtifactsFetched
    \/ ArtifactsRaised
    \/ ArtifactsExhausted
    \/ ArtifactBad
    \/ ArtifactIter

SpecAgg == AggInit /\ [][AggNext]_vars

-----------------------------------------------------------------------------
(* Lines 87-121 of get_harbor_images on arbitrary names (mode "name"): the *)
(* handler stands at the head of the repository loop, with one project     *)
(* and one repository whose names the registry chose freely.               *)

\* characters of a project or repository name
MaxNameLen == 3
NameChars == {"a", "/", " "}
ProjectNames == SeqsUpTo({"a", "/"}, MaxNameLen) \ {<<>>}
RepoNames == SeqsUpTo(NameChars, MaxNameLen + 1)

Named(n) == JDict(<<"name">>, [name |-> JStr(n)])

\* the two fetcher calls the handler has made when it reaches line 87
ListingCall(level, i, u, entries) ==
    [level |-> level, pi |-> i, ri |-> 0, name |-> <<>>, url |-> u,
     outcome |-> "returned", exc |-> NoExc, results |-> entries]

NameInit ==
    \E p \in ProjectNames, f \in RepoNames :
        /\ IdleParser
        /\ IdleUnified
        /\ mode = "name"
        /\ variant = "harbor_image_api"
        /\ projects = <<Named(p)>> /\ pi = 1
        /\ repositories = <<Named(f)>> /\ ri = 1
        /\ artifacts = <<>> /\ ai = 0
        /\ all_images_with_tags = <<>>
        /\ log = <<>>
        /\ response = [status |-> 0]
        /\ pc = "repo_loop"
        /\ url = RepositoriesUrl(p)
        /\ results = repositories
        /\ page = 1
        /\ fstate = "idle"
        /\ exc = NoExc
        /\ params = [page |-> 1, page_size |-> ImagePageSize]
        /\ requests = <<[url |-> ProjectsUrl,
                         params |-> [with_detail |-> "false", page |-> 1,
                                     page_size |-> ImagePageSize]],
                        [url |-> RepositoriesUrl(p), params |-> params]>>
        /\ responses = <<Json(JList(repositories), NoHeader)>>
        /\ calls = <<ListingCall("projects", 0, ProjectsUrl, projects),
                     ListingCall("repositories", 1, RepositoriesUrl(p),
                                 repositories)>>

NameNext == RepoSkip \/ RepoArtifacts

SpecName == NameInit /\ [][NameNext]_vars

-----------------------------------------------------------------------------
(* parse_crictl_images_output of image_api.py and server/app/image_api.py: *)
(* the two bodies are the same, line numbers are those of image_api.py.    *)

\* the whitespace str.strip removes, of the characters modelled
Whitespace == {" ", "\t", "\n"}

RECURSIVE LStrip(_)
LStrip(s) ==
    IF s # <<>> /\ s[1] \in Whitespace THEN LStrip(Tail(s)) ELSE s

RECURSIVE RStrip(_)
RStrip(s) ==
    IF s # <<>> /\ s[Len(s)] \in Whitespace
    THEN RStrip(SubSeq(s, 1, Len(s) - 1))
    ELSE s

\* str.strip()
Strip(s) == RStrip(LStrip(s))

RECURSIVE SplitLines(_)
\* str.splitlines(): no last empty line after a final line break
SplitLines(s) ==
    IF s = <<>> THEN <<>>
    ELSE LET i == IndexFrom(s, "\n", 1)
         IN IF i = 0 THEN <<s>>
            ELSE <<SubSeq(s, 1, i - 1)>> \o SplitLines(SubSeq(s, i + 1, Len(s)))

\* str.find(sub): the 0-based offset of the first occurrence, -1 when absent
Find(s, sub) ==
    LET hits == {k \in 0..(Len(s) - Len(sub)) :
                    SubSeq(s, k + 1, k + Len(sub)) = sub}
    IN IF hits = {} THEN -1
       ELSE CHOOSE k \in hits : \A h \in hits : k <= h

\* s[a:b] for 0 <= a, 0 <= b: indices past the end are clamped
Slice(s, a, b) ==
    IF a >= Len(s) \/ a >= b THEN <<>>
    ELSE SubSeq(s, a + 1, IF b < Len(s) THEN b ELSE Len(s))

\* s[a:]
SliceFrom(s, a) == Slice(s, a, Len(s))

TAG == <<"T", "A", "G">>
IMAGE_ID == <<"I", "M", "A", "G", "E", " ", "I", "D">>
SIZE == <<"S", "I", "Z", "E">>

\* mutant: the lines are split without stripping the text first
OutputLines_nostrip(out) == SplitLines(out)

\* line 250: lines = output.strip().splitlines()
OutputLines(out) == SplitLines(Strip(out))

\* lines 261-263: the column offsets read off the header
Columns(header) ==
    [tag |-> Find(header, TAG), image_id |-> Find(header, IMAGE_ID),
     size |-> Find(header, SIZE)]

\* mutant: the labels are looked for, their order is not
HeaderOk_unordered(c) == c.tag # -1 /\ c.image_id # -1 /\ c.size # -1

\* lines 267-270: all three labels found, in this order
HeaderOk(c) ==
    /\ c.tag # -1
    /\ c.image_id # -1
    /\ c.size # -1
    /\ c.tag < c.image_id
    /\ c.image_id < c.size

\* mutant: no image is left out
Ignored_never(id, ignored) == FALSE

\* line 296: the image id is one of those to leave out
Ignored(id, ignored) == id \in ignored

\* lines 287-305: the record of one data line, sliced after line 279 stripped it
ImageData(line_str_stripped, c) ==
    LET tag == Strip(Slice(line_str_stripped, c.tag, c.image_id))
    IN [repository |-> Strip(Slice(line_str_stripped, 0, c.tag)),
        tag |-> IF tag = <<>> THEN NoneTag ELSE tag,
        image_id |-> Strip(Slice(line_str_stripped, c.image_id, c.size)),
        size |-> Strip(SliceFrom(line_str_stripped, c.size))]

RECURSIVE DataLines(_, _, _)
\* lines 278-307: the loop over lines[1:]
DataLines(lines, c, ignored) ==
    IF lines = <<>> THEN <<>>
    ELSE LET line_str_stripped == Strip(lines[1])
             rest == DataLines(Tail(lines), c, ignored)
         IN IF line_str_stripped = <<>> THEN rest
            ELSE LET image_data == ImageData(line_str_stripped, c)
                 IN IF Ignored(image_data.image_id, ignored) THEN rest
                    ELSE <<image_data>> \o rest

\* the whole function: the list it returns and the return statement taken
parse_crictl_images_output(out, ignored) ==
    LET lines == OutputLines(out)
    IN IF Len(lines) < 2 THEN [images |-> <<>>, line |-> 255]
       ELSE LET c == Columns(lines[1])
            IN IF ~HeaderOk(c) THEN [images |-> <<>>, line |-> 276]
               ELSE [images |-> DataLines(Tail(lines), c, ignored),
                     line |-> 310]

\* The texts the parser is called on.  Mode "lines": blank and non-blank
\* lines in every arrangement.  Mode "header": every header made of the
\* labels, before one data line.  Mode "rows": a well-formed header before
\* data lines of every kind.
ParseModes == {"lines", "header", "rows"}

\* lines of a text in mode "lines"
MaxLines == 4
\* label tokens of a header in mode "header"
MaxHeaderTokens == 4
\* data lines of a text in mode "rows"
MaxRows == 3

RECURSIVE Join(_)
\* the lines of a text, each but the last ended by a line break
Join(ls) ==
    IF ls = <<>> THEN <<>>
    ELSE IF Len(ls) = 1 THEN ls[1]
    ELSE ls[1] \o <<"\n">> \o Join(Tail(ls))

RECURSIVE Flatten(_)
Flatten(ts) == IF ts = <<>> THEN <<>> ELSE ts[1] \o Flatten(Tail(ts))

\* s followed by blanks up to width n
Pad(s, n) == s \o [k \in 1..(n - Len(s)) |-> " "]

AnyLines == {<<>>, <<" ">>, <<"a">>, <<" ", "a", "\t">>}

HeaderTokens ==
    {<<"R", " ">>, TAG \o <<" ">>, IMAGE_ID \o <<" ">>, SIZE, <<" ">>}
HeaderLines == {Flatten(ts) : ts \in SeqsUpTo(HeaderTokens, MaxHeaderTokens)}

\* "R TAG IMAGE ID SIZE": columns at offsets 2, 6 and 15
GoodHeader == Flatten(<<<<"R", " ">>, TAG \o <<" ">>, IMAGE_ID \o <<" ">>, SIZE>>)
Row(repo, tag, id, size) == Pad(repo, 2) \o Pad(tag, 4) \o Pad(id, 9) \o size

Rows ==
    {Row(<<"n">>, <<"v">>, <<"x">>, <<"1">>),
     Row(<<"m">>, <<>>, <<"y">>, <<"2">>),
     Row(<<>>, <<"v">>, <<"x">>, <<"1">>),
     <<" ", " ">> \o Row(<<"n">>, <<"v", "v", "v">>, <<"y">>, <<"1">>),
     Row(<<"n">>, <<"w">>, <<"y">>, <<"3">>) \o <<" ">>,
     <<"n", " ", "v">>,
     <<"q">>,
     <<>>,
     <<" ">>}

IgnoreSets == SUBSET {<<"x">>, <<"y">>}

Texts(m) ==
    CASE m = "lines" ->
            {Join(ls) \o e : ls \in SeqsUpTo(AnyLines, MaxLines),
                             e \in {<<>>, <<"\n">>}}
      [] m = "header" ->
            {Join(<<h, Row(<<"n">>, <<"v">>, <<"x">>, <<"1">>)>>) : h \in HeaderLines}
      [] OTHER ->
            {Join(<<GoodHeader>> \o rs) : rs \in SeqsUpTo(Rows, MaxRows)}

ParseInit ==
    /\ mode \in ParseModes
    /\ variant = "harbor_image_api"
    /\ IdleFetcher
    /\ IdleAgg
    /\ IdleUnified
    /\ output \in Texts(mode)
    /\ ignored_image_ids \in (IF mode = "rows" THEN IgnoreSets ELSE {{}})
    /\ images = <<>>
    /\ pstate = [at |-> "called", line |-> 0]

\* the call runs to its return statement
ParseReturn ==
    /\ pstate.at = "called"
    /\ LET r == parse_crictl_images_output(output, ignored_image_ids)
       IN /\ images' = r.images
          /\ pstate' = [at |-> "returned", line |-> r.line]
    /\ UNCHANGED <<mode, fvars, avars, uvars, output, ignored_image_ids>>

ParseNext == ParseReturn

SpecParse == ParseInit /\ [][ParseNext]_vars

-----------------------------------------------------------------------------
(* get_all_images of image.py: the crictl process, then the Harbor         *)
(* traversal with get_harbor_paginated_results of harbor_api.py.           *)

\* `from image_api import parse_crictl_images_output`: beside image.py the
\* import finds image_api.py, whose function takes `output` alone; with
\* server/app first on the path it finds the one that takes the ignore set too
ImageApiModules == {"image_api.py", "server/app/image_api.py"}

ErrorEntry(source, error) == [source |-> source, error |-> error]

\* how subprocess.Popen / communicate(timeout=30) can end
CrictlTexts ==
    {<<>>,
     Join(<<GoodHeader, Row(<<"n">>, <<"v">>, <<"x">>, <<"1">>)>>),
     Join(<<GoodHeader, Row(<<"n">>, <<"v">>, <<"x">>, <<"1">>),
            Row(<<"m">>, <<>>, <<"y">>, <<"2">>)>>)}
CrictlOutcomes ==
    {[kind |-> "exit", returncode |-> 0, stdout |-> t] : t \in CrictlTexts}
    \cup {[kind |-> "exit", returncode |-> 1, stdout |-> <<>>],
          [kind |-> "FileNotFoundError", returncode |-> -1, stdout |-> <<>>],
          [kind |-> "TimeoutExpired", returncode |-> -1, stdout |-> <<>>]}

\* lines 131-155: what the containerd block leaves in `result`
AfterCrictl(p, ignored) ==
    IF p.kind # "exit"
    THEN [EmptyResult EXCEPT !.errors = <<ErrorEntry("containerd", p.kind)>>]
    ELSE IF p.returncode # 0
    THEN [EmptyResult EXCEPT
            !.errors = <<ErrorEntry("containerd", "Failed to execute crictl command")>>]
    ELSE IF config.image_api = "image_api.py"
    THEN [EmptyResult EXCEPT !.errors = <<ErrorEntry("containerd", "TypeError")>>]
    ELSE [EmptyResult EXCEPT
            !.containerd_images = parse_crictl_images_output(p.stdout, ignored).images]

\* lines 131-155: the crictl process runs and its output is parsed
AllCrictl ==
    /\ upc = "start"
    /\ \E p \in CrictlOutcomes, ignored \in {{}, {<<"y">>}} :
          /\ process' = p
          /\ output' = p.stdout
          /\ ignored_image_ids' = ignored
          /\ result' = AfterCrictl(p, ignored)
    /\ upc' = "harbor"
    /\ UNCHANGED <<mode, fvars, avars, images, pstate, config, harbor_images>>

\* lines 208-213: harbor_config lacks url, user or password
AllHarborIncomplete ==
    /\ upc = "harbor"
    /\ ~config.harbor_complete
    /\ result' = [result EXCEPT
                    !.errors = Append(@, ErrorEntry("harbor",
                                            "Harbor configuration incomplete"))]
    /\ upc' = "return"
    /\ UNCHANGED <<mode, fvars, avars, pvars, config, process, harbor_images>>

\* lines 160-168: ask for the project listing
AllHarborStart ==
    /\ upc = "harbor"
    /\ config.harbor_complete
    /\ BeginFetch("harbor_api", ProjectsUrl, ProjectsParams)
    /\ upc' = "fetch_projects"
    /\ UNCHANGED <<mode, avars, pvars, config, process, result, harbor_images>>

\* mutant: the except clause answers with the records collected so far
HarborExcept_partial(error) ==
    /\ result' = [result EXCEPT !.errors = Append(@, ErrorEntry("harbor", error)),
                                !.harbor_images = harbor_images]
    /\ upc' = "return"
    /\ fstate' = "idle"
    /\ UNCHANGED <<mode, flocals, pc, projects, pi, repositories, ri, artifacts,
                   ai, all_images_with_tags, log, response, pvars, config,
                   process>>

\* lines 202-207: the except clause of the Harbor block
HarborExcept(error) ==
    /\ result' = [result EXCEPT !.errors = Append(@, ErrorEntry("harbor", error))]
    /\ upc' = "return"
    /\ fstate' = "idle"
    /\ UNCHANGED <<mode, flocals, pc, projects, pi, repositories, ri, artifacts,
                   ai, all_images_with_tags, log, response, pvars, config,
                   process>>

\* the fetcher has returned (a list or None) to get_all_images
FetcherBack(at) == upc = at /\ fstate \in {"returned", "returned_none"}

\* lines 163-171: the project listing came back; iterating None raises
AllProjectsFetched ==
    /\ FetcherBack("fetch_projects")
    /\ calls' = Append(calls, EndedCall("projects", <<>>))
    /\ IF fstate = "returned_none"
       THEN HarborExcept("TypeError") /\ UNCHANGED harbor_images
       ELSE /\ projects' = results
            /\ pi' = 1
            /\ harbor_images' = <<>>
            /\ upc' = "project_loop"
            /\ fstate' = "idle"
            /\ UNCHANGED <<mode, flocals, pc, repositories, ri, artifacts, ai,
                           all_images_with_tags, log, response, pvars,
                           config, process, result>>

\* x['name'] raises unless x is a dict with that key
HasName(x) == IsDict(x) /\ "name" \in DOMAIN x.f

\* lines 171-178: project['name'], then ask for its repositories
AllProject ==
    /\ upc = "project_loop"
    /\ pi <= Len(projects)
    /\ IF ~HasName(Project)
       THEN HarborExcept("KeyError") /\ UNCHANGED <<harbor_images, calls>>
       ELSE /\ BeginFetch("harbor_api", RepositoriesUrl(project_name), NoParams)
            /\ upc' = "fetch_repos"
            /\ UNCHANGED <<mode, avars, pvars, config, process, result,
                           harbor_images>>

\* lines 200-201: every project is done
AllHarborDone ==
    /\ upc = "project_loop"
    /\ pi > Len(projects)
    /\ result' = [result EXCEPT !.harbor_images = harbor_images]
    /\ upc' = "return"
    /\ UNCHANGED <<mode, fvars, avars, pvars, config, process, harbor_images>>

\* lines 174-180: the repository listing came back
AllReposFetched ==
    /\ FetcherBack("fetch_repos")
    /\ calls' = Append(calls, EndedCall("repositories", <<>>))
    /\ IF fstate = "returned_none"
       THEN HarborExcept("TypeError") /\ UNCHANGED harbor_images
       ELSE /\ repositories' = results
            /\ ri' = 1
            /\ upc' = "repo_loop"
            /\ fstate' = "idle"
            /\ UNCHANGED <<mode, flocals, pc, projects, pi, artifacts, ai,
                           all_images_with_tags, log, response, pvars,
                           config, process, result, harbor_images>>

\* lines 180-187: repo['name'], then ask for its artifacts; the name goes into
\* the URL as it is
AllRepo ==
    /\ upc = "repo_loop"
    /\ ri <= Len(repositories)
    /\ IF ~HasName(Repo)
       THEN HarborExcept("KeyError") /\ UNCHANGED <<harbor_images, calls>>
       ELSE /\ BeginFetch("harbor_api", ArtifactsUrl(project_name, full_repo_name),
                       NoParams)
            /\ upc' = "fetch_artifacts"
            /\ UNCHANGED <<mode, avars, pvars, config, process, result,
                           harbor_images>>

\* line 180: the repositories of the project are done
AllReposExhausted ==
    /\ upc = "repo_loop"
    /\ ri > Len(repositories)
    /\ pi' = pi + 1
    /\ upc' = "project_loop"
    /\ UNCHANGED <<mode, fvars, pc, projects, repositories, ri, artifacts, ai,
                   all_images_with_tags, log, response, calls, pvars, config,
                   process, result, harbor_images>>

\* lines 183-189: the artifact listing came back
AllArtifactsFetched ==
    /\ FetcherBack("fetch_artifacts")
    /\ calls' = Append(calls, EndedCall("artifacts", <<>>))
    /\ IF fstate = "returned_none"
       THEN HarborExcept("TypeError") /\ UNCHANGED harbor_images
       ELSE /\ artifacts' = results
            /\ ai' = 1
            /\ upc' = "artifact_loop"
            /\ fstate' = "idle"
            /\ UNCHANGED <<mode, flocals, pc, projects, pi, repositories, ri,
                           all_images_with_tags, log, response, pvars,
                           config, process, result, harbor_images>>

\* lines 192-198: the record of one tag
HarborImage(artifact, tag) ==
    [repository |-> full_repo_name, tag |-> tag.f["name"].v,
     digest |-> artifact.f["digest"],
     size |-> GetOr(artifact, "size", JStr(<<"unknown">>)),
     project |-> project_name]

RECURSIVE AllTagLoop(_, _, _)
\* lines 191-198: the records of the tags from position k on, up to the tag
\* (if any) at which tag['name'] or artifact['digest'] raises
AllTagLoop(artifact, tags, k) ==
    IF k > Len(tags) THEN [recs |-> <<>>, raised |-> FALSE]
    ELSE IF ~HasName(tags[k]) \/ "digest" \notin DOMAIN artifact.f
    THEN [recs |-> <<>>, raised |-> TRUE]
    ELSE LET rest == AllTagLoop(artifact, tags, k + 1)
         IN [recs |-> <<HarborImage(artifact, tags[k])>> \o rest.recs,
             raised |-> rest.raised]

\* lines 190-198: `'tags' in artifact and artifact['tags']`, then the tag loop;
\* an artifact without tags appends nothing
AllArtifactRecords(artifact) ==
    IF artifact.t \in {"list", "str"} THEN [recs |-> <<>>, raised |-> FALSE]
    ELSE IF ~IsDict(artifact) THEN [recs |-> <<>>, raised |-> TRUE]
    ELSE IF "tags" \notin DOMAIN artifact.f \/ ~Truthy(artifact.f["tags"])
    THEN [recs |-> <<>>, raised |-> FALSE]
    ELSE IF ~Iterable(artifact.f["tags"]) THEN [recs |-> <<>>, raised |-> TRUE]
    ELSE AllTagLoop(artifact, Iterate(artifact.f["tags"]), 1)

\* lines 189-198: one artifact, all its tags
AllArtifact ==
    /\ upc = "artifact_loop"
    /\ ai <= Len(artifacts)
    /\ LET a == AllArtifactRecords(Artifact)
       IN /\ harbor_images' = harbor_images \o a.recs
          /\ IF a.raised
             THEN HarborExcept("KeyError") /\ UNCHANGED calls
             ELSE /\ ai' = ai + 1
                  /\ UNCHANGED <<mode, fvars, pc, projects, pi, repositories,
                                 ri, artifacts, all_images_with_tags, log,
                                 response, calls, pvars, config, process,
                                 result, upc>>

\* line 189: the artifacts of the repository are done
AllArtifactsExhausted ==
    /\ upc = "artifact_loop"
    /\ ai > Len(artifacts)
    /\ ri' = ri + 1
    /\ upc' = "repo_loop"
    /\ UNCHANGED <<mode, fvars, pc, projects, pi, repositories, artifacts, ai,
                   all_images_with_tags, log, response, calls, pvars, config,
                   process, result, harbor_images>>

\* line 215: return jsonify(result)
AllReturn ==
    /\ upc = "return"
    /\ response' = [status |-> 200, body |-> "result", result |-> result]
    /\ upc' = "done"
    /\ UNCHANGED <<mode, fvars, pc, projects, pi, repositories, ri, artifacts,
                   ai, all_images_with_tags, log, calls, pvars, config,
                   process, result, harbor_images>>

\* requests.get calls explored in one run of get_all_images
MaxAllRequests == 4

\* one iteration of the fetcher's `while True` against the registry
AllFetchPage ==
    /\ mode = "unified"
    /\ fstate = "running"
    /\ Len(requests) < MaxAllRequests
    /\ \E r \in Failures \cup {Json(b, NoHeader) : b \in ListingBodies(mode, url)} :
          RoundTrip(r)
    /\ UNCHANGED <<mode, avars, pvars, uvars>>

AllInit ==
    /\ mode = "unified"
    /\ variant = "harbor_api"
    /\ IdleFetcher
    /\ IdleAgg
    /\ IdleParser
    /\ config \in [image_api : ImageApiModules, harbor_complete : BOOLEAN]
    /\ process = [kind |-> "none"]
    /\ result = EmptyResult
    /\ harbor_images = <<>>
    /\ upc = "start"

AllNext ==
    \/ AllCrictl
    \/ AllHarborIncomplete
    \/ AllHarborStart
    \/ AllFetchPage
    \/ AllProjectsFetched
    \/ AllProject
    \/ AllHarborDone
    \/ AllReposFetched
    \/ AllRepo
    \/ AllReposExhausted
    \/ AllArtifactsFetched
    \/ AllArtifact
    \/ AllArtifactsExhausted
    \/ AllReturn

SpecAll == AllInit /\ [][AllNext]_vars

-----------------------------------------------------------------------------
(* Properties of a single fetcher call, checked under SpecFetch.           *)

\* a page that is a plain sequence of n items, sent without x-total-count
ListPage(r, n) ==
    /\ r.kind = "json"
    /\ IsList(r.body)
    /\ Len(r.body.v) = n
    /\ r.hdr = NoHeader

ShortListPage(r, N) == \E k \in 0..(N - 1) : ListPage(r, k)

\* the first n answers are all full pages
AllFull(n) == \A i \in 1..n : ListPage(responses[i], PageSize(variant))

RECURSIVE ConcatPages(_)
\* the items of a sequence of list pages, in page order
ConcatPages(rs) ==
    IF rs = <<>> THEN <<>>
    ELSE ConcatPages(SubSeq(rs, 1, Len(rs) - 1)) \o rs[Len(rs)].body.v

\* what the call evaluates to: a list, None, or nothing (it raised / it runs)
FetchResult ==
    CASE fstate = "returned" -> JList(results)
      [] fstate = "returned_none" -> JNull
      [] OTHER -> [t |-> fstate]

\* C1: against m full list pages followed by one page of k < N items, with no
\* total-count header, either fetcher keeps asking while the pages are full
\* (request j carries page j) and, at the short page, returns exactly the
\* m*N + k items in page order after exactly m + 1 requests.
C1_PaginationTermination ==
    (mode = "fetch" /\ fstate # "idle") =>
        LET n == Len(responses)
            N == PageSize(variant)
        IN /\ AllFull(n) =>
                /\ fstate = "running"
                /\ results = ConcatPages(responses)
                /\ Len(requests) = n
                /\ page = n + 1
           /\ (n >= 1 /\ AllFull(n - 1) /\ ShortListPage(responses[n], N)) =>
                /\ FetchResult = JList(ConcatPages(responses))
                /\ Len(results) = (n - 1) * N + Len(responses[n].body.v)
                /\ Len(requests) = n

\* pages [N, N, N, 1]: 3N + 1 items after 4 requests
C1_Witness ==
    /\ mode = "fetch"
    /\ fstate = "returned"
    /\ Len(requests) = 4
    /\ AllFull(3)
    /\ ListPage(responses[4], 1)
    /\ Len(results) = 3 * PageSize(variant) + 1

\* a decoded body that is neither a sequence nor an object whose `data` key
\* holds a sequence
FormatViolation(r) ==
    /\ r.kind = "json"
    /\ ~IsList(r.body)
    /\ ~(IsDict(r.body) /\ "data" \in DOMAIN r.body.f /\ IsList(r.body.f["data"]))

\* C2: once a page with a format-violating body has been received, the fetch
\* ends in a failure (None in harbor_api.py, an exception in
\* harbor_image_api.py), never in a successful result.
C2_FormatViolationFails ==
    mode = "fetch" =>
        \A i \in 1..Len(responses) :
            FormatViolation(responses[i]) =>
                IF variant = "harbor_api" THEN fstate = "returned_none"
                ELSE fstate = "raised"

\* C2 on harbor_api.py alone, where it holds
C2_ApiOnly ==
    (mode = "fetch" /\ variant = "harbor_api") =>
        \A i \in 1..Len(responses) :
            FormatViolation(responses[i]) => fstate = "returned_none"

\* a request that failed at the network level or whose body is not JSON
NetworkOrDecodeFailure(r) == r.kind \in {"conn", "timeout", "http", "badjson"}

\* C3: a network-level failure or an undecodable body on any page makes the
\* whole fetch a failure (None / a raised exception): the outcome is never a
\* list, so never the items of the pages before it.
C3_FailureSurfaced ==
    mode = "fetch" =>
        \A i \in 1..Len(responses) :
            NetworkOrDecodeFailure(responses[i]) =>
                /\ FetchResult.t # "list"
                /\ variant = "harbor_api" => FetchResult = JNull
                /\ variant = "harbor_image_api" =>
                        (fstate = "raised" /\ exc = ExcOf(responses[i]))

\* the failure comes at page 3, after two full pages were accumulated
C3_Witness ==
    /\ mode = "fetch"
    /\ Len(responses) = 3
    /\ NetworkOrDecodeFailure(responses[3])
    /\ Len(results) = 2 * PageSize(variant)
    /\ fstate \in {"returned_none", "raised"}

-----------------------------------------------------------------------------
(* Properties of get_harbor_images, checked under SpecAgg.                 *)

Done == pc = "done"

\* the records emitted for repository r of project i / for its artifact j
RecordsOfRepo(i, r) ==
    SelectSeq(all_images_with_tags, LAMBDA x : x.src[1] = i /\ x.src[2] = r)
RecordsOfArtifact(i, r, j) ==
    SelectSeq(all_images_with_tags, LAMBDA x : x.src = <<i, r, j>>)

\* the log entries of get_harbor_images about repository r of project i that
\* come from the given lines
LogOfRepo(i, r, lines) ==
    SelectSeq(log, LAMBDA e : e.pi = i /\ e.ri = r /\ e.line \in lines)

\* the per-unit failures a response carries as data
ReturnedFailures(resp) ==
    IF "failures" \in DOMAIN resp THEN resp.failures ELSE <<>>

IsArtifactCall(c) == c.level = "artifacts"

\* connection error, timeout, or an HTTP error other than 404
TransportFailure(e) ==
    \/ e.type \in {"ConnectionError", "Timeout"}
    \/ e.type = "HTTPError" /\ e.status # 404

NotFound(e) == e.type = "HTTPError" /\ e.status = 404

\* every project and repository listing was fetched and holds objects only
ListingsOk ==
    \A k \in 1..Len(calls) :
        ~IsArtifactCall(calls[k]) =>
            /\ calls[k].outcome = "returned"
            /\ \A j \in 1..Len(calls[k].results) : IsDict(calls[k].results[j])

\* an artifact listing whose entries are objects with well-formed tags
ArtifactsOk(c) ==
    \A j \in 1..Len(c.results) :
        /\ IsDict(c.results[j])
        /\ ~ArtifactRecords(c.name, c.results[j], <<c.pi, c.ri, j>>).raised

\* each artifact fetch either failed or brought a well-formed listing
ArtifactCallsOk ==
    \A k \in 1..Len(calls) :
        IsArtifactCall(calls[k]) =>
            (calls[k].outcome = "raised" \/ ArtifactsOk(calls[k]))

RECURSIVE RecordsOfListing(_, _)
\* the records of the first n artifacts of the listing that call c returned
RecordsOfListing(c, n) ==
    IF n = 0 THEN <<>>
    ELSE RecordsOfListing(c, n - 1)
            \o ArtifactRecords(c.name, c.results[n], <<c.pi, c.ri, n>>).recs

RECURSIVE RecordsOfCalls(_)
\* the records of the first k calls, in the order the calls were made: those
\* of every artifact listing that was fetched, nothing for a fetch that failed
RecordsOfCalls(k) ==
    IF k = 0 THEN <<>>
    ELSE RecordsOfCalls(k - 1)
            \o (IF IsArtifactCall(calls[k]) /\ calls[k].outcome = "returned"
                THEN RecordsOfListing(calls[k], Len(calls[k].results))
                ELSE <<>>)

FailedArtifactCalls ==
    {k \in 1..Len(calls) :
        /\ IsArtifactCall(calls[k])
        /\ calls[k].outcome = "raised"
        /\ TransportFailure(calls[k].exc)}

\* the traversals C4 is about: finished, and nothing failed but artifact
\* fetches
OnlyArtifactFetchesFail == Done /\ ListingsOk /\ ArtifactCallsOk

C5_PerProjectIsolation ==
    (Done /\ \E k \in 1..Len(calls) :
                calls[k].level = "repositories" /\ calls[k].outcome = "raised")
        => /\ response.status = 200
           /\ response.images = all_images_with_tags

\* the repositories of a fetched listing that get an artifact request: those
\* with a name whose derived name is not empty
Queried(rc, j) ==
    /\ Truthy(Get(rc.results[j], "name"))
    /\ RepositoryActualName(Get(rc.results[j], "name").v,
                            Get(projects[rc.pi], "name").v) # <<>>

\* every repository of every fetched listing had its artifacts requested
EveryRepositoryVisited ==
    \A k \in 1..Len(calls) :
        calls[k].level = "repositories" =>
            \A j \in 1..Len(calls[k].results) :
                Queried(calls[k], j) =>
                    \E a \in 1..Len(calls) :
                        /\ IsArtifactCall(calls[a])
                        /\ calls[a].pi = calls[k].pi
                        /\ calls[a].ri = j

NotFoundCalls ==
    {k \in 1..Len(calls) :
        /\ IsArtifactCall(calls[k])
        /\ calls[k].outcome = "raised"
        /\ NotFound(calls[k].exc)}

Processed(k, j) ==
    /\ IsArtifactCall(calls[k])
    /\ calls[k].outcome = "returned"
    /\ j \in 1..Len(calls[k].results)
    /\ (k = Len(calls) /\ pc = "artifact_loop") => j < ai
    /\ \A i \in 1..j :
          /\ IsDict(calls[k].results[i])
          /\ ~ArtifactRecords(calls[k].name, calls[k].results[i],
                              <<calls[k].pi, calls[k].ri, i>>).raised

\* `tags` is missing, null, or an empty sequence
NoTags(a) ==
    \/ "tags" \notin DOMAIN a.f
    \/ a.f["tags"].t = "null"
    \/ (a.f["tags"].t = "list" /\ Len(a.f["tags"].v) = 0)

\* no entry of `tags` is a non-null entry with a non-empty name
NoUsableTags(a) ==
    \/ NoTags(a)
    \/ /\ a.f["tags"].t = "list"
       /\ \A i \in 1..Len(a.f["tags"].v) :
             LET e == a.f["tags"].v[i]
             IN \/ e.t = "null"
                \/ /\ e.t = "dict"
                   /\ ("name" \notin DOMAIN e.f \/ e.f["name"] = JStr(<<>>))

\* the one record with the sentinel tag, for artifact j of call c
NoneRecord(c, j) ==
    [repository |-> HarborHost \o <<"/">> \o c.name, tag |-> <<"<none>">>,
     src |-> <<c.pi, c.ri, j>>]

C8_NoUsableTags ==
    \A k \in 1..Len(calls) :
        \A j \in 1..Len(calls[k].results) :
            (IsDict(calls[k].results[j]) /\ NoUsableTags(calls[k].results[j])
                    /\ Processed(k, j)) =>
                RecordsOfArtifact(calls[k].pi, calls[k].ri, j)
                    = <<NoneRecord(calls[k], j)>>

\* C9: when the fetch of the project listing fails, the handler answers 500
\* with an error body and no record, and no repository or artifact request
\* was issued.
C9_TopLevelFailure ==
    (Len(calls) >= 1 /\ calls[1].outcome = "raised") =>
        /\ Done
        /\ Len(calls) = 1
        /\ response.status = 500
        /\ response.body = "error"
        /\ response.images = <<>>
        /\ \A n \in 1..Len(requests) : requests[n].url = ProjectsUrl

C9_Witness ==
    /\ Done
    /\ Len(calls) = 1
    /\ calls[1].level = "projects"
    /\ calls[1].outcome = "raised"
    /\ calls[1].exc.type = "Timeout"
    /\ response.status = 500

\* a project entry whose name is missing or empty
Unnamed(p) ==
    /\ IsDict(p)
    /\ ("name" \notin DOMAIN p.f \/ p.f["name"] = JStr(<<>>))

\* C10: a project entry without a name is skipped: nothing is fetched and
\* nothing is emitted for it, the handler never ends on it, one warning is
\* logged once the loop has passed it, and a traversal that ends with 200 has
\* gone through the whole listing and fetched every named project after it.
C10_UnnamedProjectSkipped ==
    \A i \in 1..Len(projects) :
        Unnamed(projects[i]) =>
            /\ \A k \in 1..Len(calls) :
                  calls[k].level = "projects" \/ calls[k].pi # i
            /\ (pc \in {"fetch_repos", "repo_loop", "fetch_artifacts",
                        "artifact_loop"}) => pi # i
            /\ \A n \in 1..Len(all_images_with_tags) :
                  all_images_with_tags[n].src[1] # i
            /\ Done => pi # i
            /\ pi > i =>
                  Len(SelectSeq(log, LAMBDA e : e.line = 73 /\ e.pi = i)) = 1
            /\ (Done /\ response.status = 200) =>
                  /\ pi = Len(projects) + 1
                  /\ \A n \in (i + 1)..Len(projects) :
                        ~Unnamed(projects[n]) =>
                            \E k \in 1..Len(calls) :
                                /\ calls[k].level = "repositories"
                                /\ calls[k].pi = n

\* an unnamed project comes first and the named one after it is traversed
C10_Witness ==
    /\ Done
    /\ response.status = 200
    /\ Len(projects) = 2
    /\ Unnamed(projects[1])
    /\ ~Unnamed(projects[2])
    /\ \E k \in 1..Len(calls) : IsArtifactCall(calls[k]) /\ calls[k].pi = 2
    /\ Len(response.images) >= 1

\* position a comes no later than position b in the traversal: by project,
\* then by repository, then by artifact
SrcLeq(a, b) ==
    \/ a[1] < b[1]
    \/ a[1] = b[1] /\ a[2] < b[2]
    \/ a[1] = b[1] /\ a[2] = b[2] /\ a[3] <= b[3]

\* no record of a later unit stands before a record of an earlier unit
InTraversalOrder(recs) ==
    \A n \in 1..(Len(recs) - 1) : SrcLeq(recs[n].src, recs[n + 1].src)

IsNamedTag(e) ==
    e.t = "dict" /\ "name" \in DOMAIN e.f /\ e.f["name"].t = "str"
        /\ e.f["name"].v # <<>>

\* the tags an artifact lists, in the order it lists them
TagNames(a) ==
    IF NoTags(a) THEN <<NoneTag>>
    ELSE LET named == SelectSeq(a.f["tags"].v, IsNamedTag)
         IN [n \in 1..Len(named) |-> named[n].f["name"].v]

\* the records of `recs` that artifact j of the listing of call c stands for
\* are its tags in their order, under the name of the repository of c
InTagOrder(recs, c, j) ==
    LET mine == SelectSeq(recs, LAMBDA x : x.src = <<c.pi, c.ri, j>>)
        names == TagNames(c.results[j])
    IN /\ Len(mine) = Len(names)
       /\ \A n \in 1..Len(mine) :
             /\ mine[n].tag = names[n]
             /\ mine[n].repository = HarborHost \o <<"/">> \o c.name

\* C12: the records, as accumulated and as returned, follow the traversal:
\* by project, then repository, then artifact in listing order, then by tag in
\* the artifact's tag order.
C12_TraversalOrder ==
    /\ InTraversalOrder(all_images_with_tags)
    /\ (Done /\ response.status = 200) =>
            /\ Len(response.images) = Len(all_images_with_tags)
            /\ InTraversalOrder(response.images)
    /\ \A k \in 1..Len(calls) :
          \A j \in 1..Len(calls[k].results) :
              Processed(k, j) =>
                  /\ InTagOrder(all_images_with_tags, calls[k], j)
                  /\ (Done /\ response.status = 200) =>
                          InTagOrder(response.images, calls[k], j)

\* the answer holds records of two projects
C12_Witness ==
    /\ Done
    /\ response.status = 200
    /\ \E m, n \in 1..Len(response.images) :
          response.images[m].src[1] < response.images[n].src[1]

\* the answer holds two tags of one artifact
C12_TagsWitness ==
    /\ Done
    /\ response.status = 200
    /\ \E m, n \in 1..Len(response.images) :
          /\ m < n
          /\ response.images[m].src = response.images[n].src

-----------------------------------------------------------------------------
(* Properties of the name derivation, checked under SpecName.              *)

StartsWith(s, pre) == Len(s) >= Len(pre) /\ SubSeq(s, 1, Len(pre)) = pre

\* f with the leading "p/" removed when f starts with exactly that prefix, and
\* f verbatim otherwise
StrippedName(f, p) ==
    IF StartsWith(f, p \o <<"/">>)
    THEN SubSeq(f, Len(p) + 2, Len(f))
    ELSE f

\* C11: for every non-empty project name p and every repository name f, the
\* path segment of the artifacts URL is the encoding of f without its leading
\* "p/" when f starts with "p/", and of f itself otherwise.
C11_NameDerivation ==
    (mode = "name" /\ pc = "fetch_artifacts") =>
        url = ArtifactsUrl(project_name,
                           QuotePlus(StrippedName(full_repo_name, project_name)))

\* the derivation is the prefix removal for project names without a slash
C11_SlashFreeProjects ==
    (mode = "name" /\ pc = "fetch_artifacts"
        /\ IndexFrom(project_name, "/", 1) = 0) =>
        url = ArtifactsUrl(project_name,
                           QuotePlus(StrippedName(full_repo_name, project_name)))

-----------------------------------------------------------------------------
(* Properties of parse_crictl_images_output, checked under SpecParse.      *)

Returned == pstate.at = "returned"

\* the lines of the text as it was handed in
InputLines == SplitLines(output)
IsBlank(l) == \A n \in 1..Len(l) : l[n] \in Whitespace
NonBlank(ls) == SelectSeq(ls, LAMBDA l : ~IsBlank(l))

\* the header line and the data lines after it, as they appear in the input
InputHeader == NonBlank(InputLines)[1]
InputRows == Tail(NonBlank(InputLines))

\* the record C13 describes for data line L and label offsets t < i < s
SlicedRecord(L, t, i, s) ==
    LET tag == Strip(Slice(L, t, i))
    IN [repository |-> Strip(Slice(L, 0, t)),
        tag |-> IF tag = <<>> THEN <<"<none>">> ELSE tag,
        image_id |-> Strip(Slice(L, i, s)),
        size |-> Strip(Slice(L, s, Len(L)))]

\* C13: for a valid header with label offsets t < i < s, every non-blank data
\* line L becomes the record (trim L[0:t], trim L[t:i] or "<none>",
\* trim L[i:s], trim L[s:]), the offsets applied to L as it appears in the
\* input.
C13_SlicedAsInInput ==
    (Returned /\ mode = "rows" /\ ignored_image_ids = {}) =>
        LET c == Columns(InputHeader)
        IN images = [n \in 1..Len(InputRows) |->
                        SlicedRecord(InputRows[n], c.tag, c.image_id, c.size)]

\* the same for data lines that do not start with whitespace
C13_UnindentedRows ==
    (Returned /\ mode = "rows" /\ ignored_image_ids = {}
        /\ \A n \in 1..Len(InputRows) : InputRows[n][1] \notin Whitespace) =>
        LET c == Columns(InputHeader)
        IN images = [n \in 1..Len(InputRows) |->
                        SlicedRecord(InputRows[n], c.tag, c.image_id, c.size)]

\* the identifier field of a data line: the text between the identifier and
\* the size offsets of the line the parser slices (the line without the
\* whitespace around it), trimmed
IdentifierOf(L, c) == Strip(Slice(Strip(L), c.image_id, c.size))

\* the data lines that are not blank and whose identifier is not left out
KeptRows(c) ==
    SelectSeq(InputRows, LAMBDA L : IdentifierOf(L, c) \notin ignored_image_ids)

\* C14: for a valid header, the result holds exactly one record for each
\* non-blank data line whose trimmed identifier is not in the IgnoreSet, in
\* input order, and none for a line whose identifier is in it; a line shorter
\* than a column offset still yields its record.
C14_IgnoreFiltering ==
    (Returned /\ mode = "rows") =>
        LET c == Columns(InputHeader)
            kept == KeptRows(c)
        IN /\ Len(images) = Len(kept)
           /\ \A n \in 1..Len(images) :
                 /\ images[n].image_id = IdentifierOf(kept[n], c)
                 /\ images[n] = SlicedRecord(Strip(kept[n]), c.tag, c.image_id,
                                            c.size)
                 /\ images[n].image_id \notin ignored_image_ids

\* a line is left out between two that are kept, one of them a short one
C14_Witness ==
    /\ Returned
    /\ mode = "rows"
    /\ Len(InputRows) = 3
    /\ Len(images) = 2
    /\ IdentifierOf(InputRows[2], Columns(InputHeader)) \in ignored_image_ids
    /\ Len(InputRows[3]) < Columns(InputHeader).image_id

\* the label stands somewhere in the line
Contains(h, label) ==
    \E k \in 0..(Len(h) - Len(label)) : SubSeq(h, k + 1, k + Len(label)) = label

\* the three labels stand in the line, at strictly increasing first offsets
ValidHeader(h) ==
    /\ Contains(h, TAG)
    /\ Contains(h, IMAGE_ID)
    /\ Contains(h, SIZE)
    /\ Find(h, TAG) < Find(h, IMAGE_ID)
    /\ Find(h, IMAGE_ID) < Find(h, SIZE)

\* C15: a header that lacks one of the labels "TAG", "IMAGE ID", "SIZE", or
\* whose first offsets of them are not strictly increasing, gives an empty
\* result whatever data lines follow; a header with all three in strictly
\* increasing order is accepted and the data lines are parsed.
C15_InvalidHeader ==
    (Returned /\ Len(NonBlank(InputLines)) >= 2) =>
        IF ValidHeader(InputHeader)
        THEN /\ pstate.line = 310
             /\ (mode = "header") => Len(images) = 1
        ELSE /\ pstate.line = 276
             /\ images = <<>>

\* a header with the three labels in another order, before a data line
C15_Witness ==
    /\ Returned
    /\ mode = "header"
    /\ Len(NonBlank(InputLines)) = 2
    /\ Find(InputHeader, TAG) # -1
    /\ Find(InputHeader, IMAGE_ID) # -1
    /\ Find(InputHeader, SIZE) # -1
    /\ ~ValidHeader(InputHeader)
    /\ images = <<>>

\* C16: the test `len(output.strip().splitlines()) < 2` is true exactly when
\* the input has fewer than 2 lines that are non-empty after trimming, and
\* then the result is empty.
C16_EarlyExit ==
    /\ (Len(OutputLines(output)) < 2) <=> (Len(NonBlank(InputLines)) < 2)
    /\ Returned =>
          /\ (pstate.line = 255) <=> (Len(NonBlank(InputLines)) < 2)
          /\ (pstate.line = 255) => images = <<>>

\* one non-blank line between blank ones takes the early exit
C16_Witness ==
    /\ Returned
    /\ pstate.line = 255
    /\ Len(InputLines) >= 3
    /\ IsBlank(InputLines[1])
    /\ ~IsBlank(InputLines[2])
    /\ IsBlank(InputLines[3])

\* two non-blank lines around a blank one do not
C16_InteriorWitness ==
    /\ Returned
    /\ pstate.line # 255
    /\ Len(InputLines) = 3
    /\ IsBlank(InputLines[2])

-----------------------------------------------------------------------------
(* Properties of get_all_images, checked under SpecAll.                    *)

AllDone == upc = "done"

\* non-zero exit, missing executable, or the timeout
CrictlFailed == process.kind # "exit" \/ process.returncode # 0

ErrorsOf(source) == SelectSeq(result.errors, LAMBDA e : e.source = source)

\* the fetch of the project listing ended in a failure
ProjectListingFailed ==
    \E k \in 1..Len(calls) :
        calls[k].level = "projects" /\ calls[k].outcome = "returned_none"

\* every fetch of the Harbor block brought a listing and every entry was read
HarborCompleted ==
    /\ config.harbor_complete
    /\ ErrorsOf("harbor") = <<>>

\* a failed crictl process leaves no containerd record and one containerd
\* error, and the Harbor block still runs and answers with its records
C17_CrictlFailure ==
    (AllDone /\ CrictlFailed) =>
        /\ response.result.containerd_images = <<>>
        /\ Len(ErrorsOf("containerd")) = 1
        /\ config.harbor_complete => Len(requests) >= 1
        /\ HarborCompleted => response.result.harbor_images = harbor_images

\* a failed project listing leaves no Harbor record and one Harbor error
C17_ProjectListingFailure ==
    (AllDone /\ ProjectListingFailed) =>
        /\ response.result.harbor_images = <<>>
        /\ Len(ErrorsOf("harbor")) = 1

\* C17: a top-level failure of one source aborts only that source: a failed
\* crictl process leaves containerd_images empty with one "containerd" error
\* while the Harbor records are returned, and a failed project listing leaves
\* harbor_images empty with one "harbor" error while the containerd records
\* (those of the table the process printed) are returned.
C17_SourceIsolation ==
    /\ C17_CrictlFailure
    /\ C17_ProjectListingFailure
    /\ (AllDone /\ ProjectListingFailed /\ ~CrictlFailed) =>
          /\ response.result.containerd_images
                = parse_crictl_images_output(process.stdout,
                                             ignored_image_ids).images
          /\ ErrorsOf("containerd") = <<>>

-----------------------------------------------------------------------------
(* More properties of a single fetcher call, checked under SpecFetch.      *)

RECURSIVE Accumulated(_)
\* the number of items the first k answers brought
Accumulated(k) ==
    IF k = 0 THEN 0 ELSE Accumulated(k - 1) + PyLen(responses[k].body)

\* answer k is a page of exactly page_size items
FullPage(k) ==
    /\ responses[k].kind = "json"
    /\ IsList(responses[k].body)
    /\ Len(responses[k].body.v) = PageSize(variant)

\* the call ended at answer k with everything accumulated up to it
StoppedAt(k) ==
    /\ Len(responses) = k
    /\ Len(requests) = k
    /\ fstate = "returned"
    /\ Len(results) = Accumulated(k)

\* after answer k the call asks for page k + 1, once
ContinuedAfter(k) ==
    /\ Len(responses) = k => (fstate = "running" /\ page = k + 1)
    /\ Len(responses) > k =>
          /\ requests[k + 1].url = url
          /\ requests[k + 1].params["page"] = k + 1

\* C18: in harbor_image_api.py, a full page whose x-total-count is at most the
\* number of items accumulated ends the fetch with those items and no further
\* request; a full page with a larger x-total-count, or none, is followed by
\* exactly one request for the next page; an empty or short page ends the
\* fetch whatever the header says.
C18_TerminationOrder ==
    (mode = "fetch" /\ variant = "harbor_image_api") =>
        \A k \in 1..Len(responses) :
            LET r == responses[k]
            IN /\ (FullPage(k) /\ r.hdr.h = "num" /\ r.hdr.n <= Accumulated(k))
                    => StoppedAt(k)
               /\ (FullPage(k) /\ (r.hdr.h = "absent"
                                    \/ (r.hdr.h = "num" /\ r.hdr.n > Accumulated(k))))
                    => ContinuedAfter(k)
               /\ (r.kind = "json" /\ IsList(r.body)
                        /\ Len(r.body.v) < PageSize(variant))
                    => StoppedAt(k)

\* a second full page reaches the total the header announces
C18_Witness ==
    /\ mode = "fetch"
    /\ variant = "harbor_image_api"
    /\ Len(responses) = 2
    /\ FullPage(1) /\ FullPage(2)
    /\ responses[1].hdr = NumHeader(2 * ImagePageSize)
    /\ responses[2].hdr = NumHeader(2 * ImagePageSize)
    /\ StoppedAt(2)

\* the items answer k stands for: the list, the list under `data`
\* (harbor_api.py), or whatever extend takes from the body (harbor_image_api.py)
PageItems(k) ==
    LET b == responses[k].body
    IN IF variant = "harbor_api"
       THEN IF IsList(b) THEN b.v ELSE b.f["data"].v
       ELSE Iterate(b)

\* answer k is a failed request: a transport or decode failure, a body of
\* the wrong shape, or an x-total-count that is no number
FailedAnswer(k) ==
    LET r == responses[k]
    IN \/ r.kind # "json"
       \/ /\ variant = "harbor_api"
          /\ ~IsList(r.body)
          /\ ~(IsDict(r.body) /\ "data" \in DOMAIN r.body.f
                    /\ IsList(r.body.f["data"]))
       \/ /\ variant = "harbor_image_api"
          /\ Truthy(r.body)
          /\ \/ ~Iterable(r.body)
             \/ PyLen(r.body) >= ImagePageSize /\ r.hdr.h = "text"

\* answer k satisfies a termination condition: an empty page, a page shorter
\* than page_size, or (harbor_image_api.py) the total count reached
TerminationCondition(k) ==
    /\ ~FailedAnswer(k)
    /\ \/ Len(PageItems(k)) < PageSize(variant)
       \/ /\ variant = "harbor_image_api"
          /\ responses[k].hdr.h = "num"
          /\ Accumulated(k) >= responses[k].hdr.n

Terminated == fstate \in {"returned", "returned_none", "raised"}

\* C19: the fetch has ended exactly when its last request failed or its last
\* page satisfied a termination condition; after any number of full pages
\* without a satisfied total count it is still running and asks for the next
\* page: there is no iteration cap.
C19_NoIterationCap ==
    (mode = "fetch" /\ fstate # "idle") =>
        /\ Len(requests) = Len(responses)
        /\ \A k \in 1..(Len(responses) - 1) :
              ~FailedAnswer(k) /\ ~TerminationCondition(k)
        /\ Terminated <=>
              /\ Len(responses) >= 1
              /\ \/ FailedAnswer(Len(responses))
                 \/ TerminationCondition(Len(responses))
        /\ ~Terminated => (fstate = "running" /\ page = Len(requests) + 1)

\* as many full pages as the exploration allows, and the loop goes on
C19_Witness ==
    /\ mode = "fetch"
    /\ Len(responses) = MaxPages
    /\ \A k \in 1..MaxPages : FullPage(k)
    /\ fstate = "running"
    /\ page = MaxPages + 1

\* request n asks for page j with the fetcher's own page size
Carries(n, j) ==
    /\ {"page", "page_size"} \subseteq DOMAIN requests[n].params
    /\ requests[n].params["page"] = j
    /\ requests[n].params["page_size"] = PageSize(variant)

\* C20: within one call of get_harbor_paginated_results the j-th request
\* carries page = j and page_size = the fetcher's fixed page size, whatever
\* page or page_size the caller's params held.
C20_PageSequence ==
    mode = "fetch" =>
        /\ \A j \in 1..Len(requests) : Carries(j, j)
        /\ fstate = "running" => page = Len(requests) + 1

\* harbor_api.py called with the aggregator's artifact params, which hold
\* page_size 50: three requests went out, each with page_size 100
C20_Witness ==
    /\ mode = "fetch"
    /\ variant = "harbor_api"
    /\ Len(requests) >= 3
    /\ "with_tag" \in DOMAIN requests[1].params
    /\ ArtifactParams["page_size"] # PageSize(variant)
    /\ requests[3].params["page_size"] = ApiPageSize

\* the same inside get_harbor_images, whose calls follow one another: the
\* requests of the running call are the last ones issued
C20_AggregatorRequests ==
    (mode \in AggModes /\ fstate = "running") =>
        LET k == Len(responses)
            first == Len(requests) - k
        IN /\ first >= 0
           /\ \A j \in 1..k : Carries(first + j, j) /\ requests[first + j].url = url
           /\ page = k + 1

\* a traversal of the registry, by get_harbor_images or by get_all_images
Traversal == mode \in AggModes \cup {"unified"}

\* a fetcher call was entered and its caller has not taken its outcome yet
Pending == fstate # "idle"

\* the listing entry a fetcher call is made for
Unit(level, i, r) ==
    CASE level = "projects" -> <<level, 0, 0>>
      [] level = "repositories" -> <<level, i, 0>>
      [] OTHER -> <<level, i, r>>

PendingLevel ==
    LET at == IF mode = "unified" THEN upc ELSE pc
    IN CASE at = "fetch_projects" -> "projects"
         [] at = "fetch_repos" -> "repositories"
         [] OTHER -> "artifacts"

\* the units fetched so far, in the order of the calls
Units ==
    [k \in 1..Len(calls) |-> Unit(calls[k].level, calls[k].pi, calls[k].ri)]
    \o (IF Pending THEN <<Unit(PendingLevel, pi, ri)>> ELSE <<>>)

\* the URLs of the calls made so far, in the order of the calls
CallUrls ==
    [k \in 1..Len(calls) |-> calls[k].url]
    \o (IF Pending THEN <<url>> ELSE <<>>)

FailedCall(k) == calls[k].outcome \in {"raised", "returned_none"}

DistinctUrls ==
    \A k, l \in 1..Len(CallUrls) : k < l => CallUrls[k] # CallUrls[l]

\* each (URL, page number) pair is requested at most once
PairsOnce ==
    \A n, m \in 1..Len(requests) :
        n < m => \/ requests[n].url # requests[m].url
                 \/ requests[n].params["page"] # requests[m].params["page"]

\* no call follows a failed call to the same URL
FailedUnitLeftAlone ==
    \A k \in 1..Len(calls) : \A l \in 1..Len(CallUrls) :
        (FailedCall(k) /\ k < l) => CallUrls[l] # calls[k].url

\* C21 as stated: within one traversal each (URL, page number) pair is
\* requested at most once, and after a request for a unit has failed no
\* further request is issued for that unit.
C21_AsStated == Traversal => (PairsOnce /\ FailedUnitLeftAlone)

\* C21 as amended: no request is retried.  Each listing entry is fetched by
\* at most one call; a call asks for each of its pages once and issues no
\* request after one of its requests failed; so a (URL, page number) pair is
\* requested twice only when two listing entries lead to the same URL.
C21_NoRetry ==
    Traversal =>
        /\ \A k, l \in 1..Len(Units) : k < l => Units[k] # Units[l]
        /\ fstate = "running" =>
              LET n == Len(responses)
                  first == Len(requests) - n
              IN /\ first >= 0
                 /\ \A j \in 1..n :
                       /\ ~FailedAnswer(j)
                       /\ requests[first + j].url = url
                       /\ requests[first + j].params["page"] = j
        /\ DistinctUrls => (PairsOnce /\ FailedUnitLeftAlone)

\* get_harbor_images is done: an artifact fetch failed, the traversal went on
\* with further calls, and no URL was asked twice
C21_Witness ==
    /\ mode \in AggModes
    /\ Done
    /\ DistinctUrls
    /\ Len(requests) >= 4
    /\ \E k \in 1..(Len(calls) - 1) :
          calls[k].level = "artifacts" /\ FailedCall(k)
    /\ C21_AsStated

\* the project listing names one project twice: its repositories are asked
\* for twice
C21_RepeatedEntry ==
    /\ mode = "dup"
    /\ ~PairsOnce

\* artifact j of the listing call k returned was reached by the loop, which
\* is through with it: it went on to the next artifact or left on an exception
Visited(k, j) ==
    /\ IsArtifactCall(calls[k])
    /\ calls[k].outcome = "returned"
    /\ j \in 1..Len(calls[k].results)
    /\ (k = Len(calls) /\ pc = "artifact_loop") => j < ai
    /\ \A i \in 1..(j - 1) :
          /\ IsDict(calls[k].results[i])
          /\ ~ArtifactRecords(calls[k].name, calls[k].results[i],
                              <<calls[k].pi, calls[k].ri, i>>).raised

\* `tags` is a sequence with at least one non-null entry that has a
\* non-empty name
HasValidTag(a) ==
    /\ IsDict(a)
    /\ "tags" \in DOMAIN a.f
    /\ a.f["tags"].t = "list"
    /\ \E i \in 1..Len(a.f["tags"].v) : IsNamedTag(a.f["tags"].v[i])

\* every entry of `tags` is null or an object
NullOrObjectEntries(a) ==
    \A i \in 1..Len(a.f["tags"].v) : a.f["tags"].v[i].t \in {"null", "dict"}

\* C22: for an artifact whose tags hold at least one non-null entry with a
\* non-empty name, the records emitted are exactly one per such entry, in the
\* order of the entries; the other entries are skipped without aborting the
\* artifact and no "<none>" record is emitted.
C22_ValidTagsEmitted ==
    \A k \in 1..Len(calls) :
        \A j \in 1..Len(calls[k].results) :
            (Visited(k, j) /\ HasValidTag(calls[k].results[j])) =>
                InTagOrder(all_images_with_tags, calls[k], j)

\* the same for tags whose other entries are null or objects without a name
C22_NullOrUnnamedSkipped ==
    \A k \in 1..Len(calls) :
        \A j \in 1..Len(calls[k].results) :
            (Visited(k, j) /\ HasValidTag(calls[k].results[j])
                    /\ NullOrObjectEntries(calls[k].results[j])) =>
                /\ InTagOrder(all_images_with_tags, calls[k], j)
                /\ \A n \in 1..Len(all_images_with_tags) :
                      all_images_with_tags[n].src = <<calls[k].pi, calls[k].ri, j>>
                          => all_images_with_tags[n].tag # NoneTag

\* tags [v, null, w]: two records, v then w
C22_MixedWitness ==
    /\ Done
    /\ response.status = 200
    /\ \E k \in 1..Len(calls) :
          /\ Visited(k, 1)
          /\ HasValidTag(calls[k].results[1])
          /\ \E i \in 1..Len(calls[k].results[1].f["tags"].v) :
                calls[k].results[1].f["tags"].v[i].t = "null"
          /\ Len(RecordsOfArtifact(calls[k].pi, calls[k].ri, 1)) = 2

-----------------------------------------------------------------------------
(* The Harbor block of get_all_images, checked under SpecAll.              *)

\* the calls made for listings of the given level
CallsAt(level) == {k \in 1..Len(calls) : calls[k].level = level}

\* an entry of a project or repository listing has its name
Nameable(e) == e.t = "dict" /\ "name" \in DOMAIN e.f

\* the tags of an artifact for which records are due
TagsDue(a) ==
    IF a.t = "dict" /\ "tags" \in DOMAIN a.f /\ a.f["tags"].t = "list"
    THEN a.f["tags"].v
    ELSE <<>>

\* an artifact has what the records need: a digest, and a name in every tag
RequiredFields(a) ==
    /\ a.t \in {"dict", "list", "str"}
    /\ a.t = "dict" /\ "tags" \in DOMAIN a.f =>
          a.f["tags"].t \in {"list", "null"}
    /\ TagsDue(a) # <<>> =>
          /\ "digest" \in DOMAIN a.f
          /\ \A n \in 1..Len(TagsDue(a)) : Nameable(TagsDue(a)[n])

\* every fetch brought a listing, every entry of every listing was visited
\* and had its required fields
CleanTraversal ==
    /\ config.harbor_complete
    /\ CallsAt("projects") # {}
    /\ \A k \in 1..Len(calls) :
          /\ calls[k].outcome = "returned"
          /\ \A i \in 1..Len(calls[k].results) :
                LET e == calls[k].results[i]
                IN CASE calls[k].level = "projects" ->
                          /\ Nameable(e)
                          /\ \E l \in CallsAt("repositories") : calls[l].pi = i
                     [] calls[k].level = "repositories" ->
                          /\ Nameable(e)
                          /\ \E l \in CallsAt("artifacts") :
                                calls[l].pi = calls[k].pi /\ calls[l].ri = i
                     [] OTHER -> RequiredFields(e)

\* the records of artifact a, found in the listing of call c
RecordsDue(c, a) ==
    [n \in 1..Len(TagsDue(a)) |->
        [repository |-> c.url[4],
         tag |-> TagsDue(a)[n].f["name"].v,
         digest |-> a.f["digest"],
         size |-> IF "size" \in DOMAIN a.f THEN a.f["size"]
                  ELSE JStr(<<"unknown">>),
         project |-> c.url[2]]]

\* the complete record list of the traversal: call by call, artifact by
\* artifact, tag by tag
CompleteList ==
    Flatten([k \in 1..Len(calls) |->
        IF calls[k].level = "artifacts"
        THEN Flatten([j \in 1..Len(calls[k].results) |->
                        RecordsDue(calls[k], calls[k].results[j])])
        ELSE <<>>])

\* the block is over: its outcome is in `result`
HarborOver == upc \in {"return", "done"}

\* C23: harbor_images of get_all_images is either the complete record list
\* of a traversal in which every fetch succeeded and every entry had its
\* required fields, or empty together with exactly one "harbor" error; a
\* failure at any depth discards what was collected, so no partial list is
\* returned.
C23_AllOrNothing ==
    mode = "unified" =>
        /\ ~HarborOver => result.harbor_images = <<>>
        /\ HarborOver =>
              IF CleanTraversal
              THEN /\ ErrorsOf("harbor") = <<>>
                   /\ result.harbor_images = CompleteList
              ELSE /\ Len(ErrorsOf("harbor")) = 1
                   /\ result.harbor_images = <<>>
        /\ AllDone => response.result = result

\* records were collected, then a fetch or an entry deeper in the traversal
\* failed: the answer has no Harbor record and one "harbor" error
C23_Witness ==
    /\ AllDone
    /\ harbor_images # <<>>
    /\ response.result.harbor_images = <<>>
    /\ Len(ErrorsOf("harbor")) = 1

\* a traversal without failure answers with its records
C23_CompleteWitness ==
    /\ AllDone
    /\ CleanTraversal
    /\ Len(response.result.harbor_images) >= 2

=============================================================================
